---- MODULE Spec2Model ----
(***************************************************************************)
(* Model of the appointment-scheduling-bot core: the configuration         *)
(* resolver (internal/shared/config/config.go) and the Google Calendar     *)
(* adapter (internal/calendar/google/client.go).                           *)
(*                                                                         *)
(* Strings that are base64-decoded are sequences of characters; every      *)
(* other string is a TLA+ string.  Bytes are integers 0..255.              *)
(***************************************************************************)
EXTENDS Integers, Sequences, FiniteSets, TLC

\* ------------------------------------------------------------------ bounds
\* longest credential field drawn as an input of GetGoogleCreds
MaxLen == 4

\* ------------------------------------------------------- characters, bytes
\* the characters credential fields are built from: two letters of the
\* base64 alphabet, the padding character, the line feed the decoder skips
\* and three characters outside the alphabet (the braces spell a JSON text)
Chars == {"A", "/", "=", ".", "\n", "{", "}"}

\* ASCII code of a character: what []byte(string) yields for it
Ord(c) ==
  CASE c = "A" -> 65
    [] c = "/" -> 47
    [] c = "=" -> 61
    [] c = "." -> 46
    [] c = "\n" -> 10
    [] c = "{" -> 123
    [] c = "}" -> 125

\* the characters of the standard base64 alphabet among Chars
B64Alphabet == {"A", "/"}

\* six-bit value of a base64 character (decodeMap of base64.StdEncoding)
B64Val(c) == IF c = "A" THEN 0 ELSE 63

\* []byte(s)
StringBytes(s) == [i \in 1..Len(s) |-> Ord(s[i])]

\* every character sequence of length at most n
StringsUpTo(n) == UNION {[1..k -> Chars] : k \in 0..n}

\* ------------------------------------------------------------ base64 decode
\* the decoder skips '\r' and '\n' wherever they stand
StripNewlines(s) == SelectSeq(s, LAMBDA c : c # "\n")

\* the three bytes of a full quantum of four six-bit values
QuantumBytes(v0, v1, v2, v3) ==
  << v0 * 4 + (v1 \div 16), (v1 % 16) * 16 + (v2 \div 4), (v2 % 4) * 64 + v3 >>

\* decodes a newline-free sequence quantum by quantum; non-strict padded
\* standard encoding: padding only closes the last quantum, trailing bits
\* are not checked
RECURSIVE DecodeQuanta(_)
DecodeQuanta(t) ==
  IF Len(t) = 0 THEN [ok |-> TRUE, bytes |-> <<>>]
  ELSE IF Len(t) < 4 THEN [ok |-> FALSE, bytes |-> <<>>]
  ELSE
    LET rest == SubSeq(t, 5, Len(t)) IN
    IF \A i \in 1..4 : t[i] \in B64Alphabet THEN
      LET r == DecodeQuanta(rest) IN
      IF r.ok
        THEN [ok |-> TRUE,
              bytes |-> QuantumBytes(B64Val(t[1]), B64Val(t[2]),
                                     B64Val(t[3]), B64Val(t[4])) \o r.bytes]
        ELSE [ok |-> FALSE, bytes |-> <<>>]
    ELSE IF /\ t[1] \in B64Alphabet /\ t[2] \in B64Alphabet
            /\ t[3] = "=" /\ t[4] = "=" /\ rest = <<>> THEN
      [ok |-> TRUE,
       bytes |-> SubSeq(QuantumBytes(B64Val(t[1]), B64Val(t[2]), 0, 0), 1, 1)]
    ELSE IF /\ t[1] \in B64Alphabet /\ t[2] \in B64Alphabet
            /\ t[3] \in B64Alphabet /\ t[4] = "=" /\ rest = <<>> THEN
      [ok |-> TRUE,
       bytes |-> SubSeq(QuantumBytes(B64Val(t[1]), B64Val(t[2]),
                                     B64Val(t[3]), 0), 1, 2)]
    ELSE [ok |-> FALSE, bytes |-> <<>>]

\* base64.StdEncoding.DecodeString: ok is err == nil
DecodeString(s) == DecodeQuanta(StripNewlines(s))

\* ---------------------------------------------------------------- filesystem
\* the paths a credential field can name in the model: one that is also
\* valid base64, one that is not
CredPaths == { <<"A", "/", "A", "A">>, <<"A", ".">> }

\* file contents: a JSON credential document stand-in and another blob
FileContents == { <<123, 125>>, <<65, 65, 65, 65>> }

\* an entry of the filesystem: absent, a directory (an existing path that
\* cannot be read as a file), or a regular readable file with its bytes
FsEntries ==
  {[kind |-> "none", data |-> <<>>], [kind |-> "dir", data |-> <<>>]}
    \cup {[kind |-> "file", data |-> d] : d \in FileContents}

NoEntry == [kind |-> "none", data |-> <<>>]

\* os.Stat(path): err == nil exactly when the path exists
Stat(f, path) == IF path \in DOMAIN f THEN f[path].kind # "none" ELSE FALSE

\* os.ReadFile(path)
ReadFile(f, path) ==
  LET e == IF path \in DOMAIN f THEN f[path] ELSE NoEntry IN
  IF e.kind = "file"
    THEN [bytes |-> e.data, err |-> ""]
    ELSE [bytes |-> <<>>, err |-> "read failed"]

\* ------------------------------------------------------------- configuration
EnvKeys == {"APP_ENV", "HTTP_PORT", "TZ", "GCAL_CALENDAR_ID",
            "GOOGLE_CREDS_JSON", "SUPABASE_URL", "SUPABASE_KEY", "REDIS_URL"}

\* the empty string of a setting: GOOGLE_CREDS_JSON is a character sequence
EmptyOf(key) == IF key = "GOOGLE_CREDS_JSON" THEN <<>> ELSE ""

\* an environment variable that is not set; os.Getenv yields "" for it
Unset(key) == [set |-> FALSE, val |-> EmptyOf(key)]

SetTo(v) == [set |-> TRUE, val |-> v]

\* getEnv without its fallback: the variable's value whatever it is
getEnv_NoDefault(e, key, defaultValue) == e[key].val

\* getEnv(key, defaultValue) over the environment e
getEnv(e, key, defaultValue) ==
  IF e[key].val # EmptyOf(key) THEN e[key].val ELSE defaultValue

\* godotenv.Overload(file): the file's variables replace those already set
godotenvLoad_Overload(e, file) ==
  IF file.kind # "ok" THEN e
  ELSE [k \in EnvKeys |->
          IF k \in DOMAIN file.vars THEN SetTo(file.vars[k]) ELSE e[k]]

\* godotenv.Load(file): a missing or malformed file changes nothing; a
\* parsed file sets every variable it names that the process has not set
godotenvLoad(e, file) ==
  IF file.kind # "ok" THEN e
  ELSE [k \in EnvKeys |->
          IF k \in DOMAIN file.vars /\ ~e[k].set
            THEN SetTo(file.vars[k]) ELSE e[k]]

\* both overlay files loaded, whether .env exists or not
OverlaidEnv_Both(e, dot, conf) ==
  godotenvLoad(godotenvLoad(e, dot), conf)

\* the environment Load reads its settings from: .env is tried first and
\* config.env only when os.Stat(".env") reports that .env does not exist
OverlaidEnv(e, dot, conf) ==
  LET e1 == godotenvLoad(e, dot) IN
  IF dot.kind = "absent" THEN godotenvLoad(e1, conf) ELSE e1

\* the Config literal of Load
ResolveConfig(e) ==
  [Env             |-> getEnv(e, "APP_ENV", "development"),
   HttpPort        |-> getEnv(e, "HTTP_PORT", "8080"),
   Timezone        |-> getEnv(e, "TZ", "UTC"),
   GCalCalendarID  |-> getEnv(e, "GCAL_CALENDAR_ID", ""),
   GoogleCredsJSON |-> getEnv(e, "GOOGLE_CREDS_JSON", <<>>),
   SupabaseURL     |-> getEnv(e, "SUPABASE_URL", ""),
   SupabaseKey     |-> getEnv(e, "SUPABASE_KEY", ""),
   RedisURL        |-> getEnv(e, "REDIS_URL", "redis://localhost:6379")]

ErrCalendarRequired == "GCAL_CALENDAR_ID is required in production"
ErrCredsRequired == "GOOGLE_CREDS_JSON is required in production"
NoError == ""

\* the validation without its production guard
Validate_AnyEnv(c) ==
  IF c.GCalCalendarID = "" THEN ErrCalendarRequired
  ELSE IF c.GoogleCredsJSON = <<>> THEN ErrCredsRequired
  ELSE NoError

\* the validation with its two tests in the other order
Validate_CredsFirst(c) ==
  IF c.Env = "production" THEN
    IF c.GoogleCredsJSON = <<>> THEN ErrCredsRequired
    ELSE IF c.GCalCalendarID = "" THEN ErrCalendarRequired
    ELSE NoError
  ELSE NoError

\* the validation without its credential test
Validate_CalendarOnly(c) ==
  IF c.Env = "production" /\ c.GCalCalendarID = ""
    THEN ErrCalendarRequired ELSE NoError

\* the validation of Load: the error it returns for a resolved Config
Validate(c) ==
  IF c.Env = "production" THEN
    IF c.GCalCalendarID = "" THEN ErrCalendarRequired
    ELSE IF c.GoogleCredsJSON = <<>> THEN ErrCredsRequired
    ELSE NoError
  ELSE NoError

\* ------------------------------------------------------ credential resolution
ErrNoCreds == "no Google credentials provided"

\* GetGoogleCreds with the file test ahead of the decoding
GetGoogleCreds_FileFirst(c, f) ==
  LET s == c.GoogleCredsJSON IN
  IF Len(s) > 0 THEN
    IF Stat(f, s) THEN
      LET r == ReadFile(f, s) IN
      [bytes |-> r.bytes, err |-> r.err, trace |-> <<"stat", "read">>]
    ELSE IF DecodeString(s).ok THEN
      [bytes |-> DecodeString(s).bytes, err |-> NoError,
       trace |-> <<"stat", "decode">>]
    ELSE [bytes |-> StringBytes(s), err |-> NoError,
          trace |-> <<"stat", "decode">>]
  ELSE [bytes |-> <<>>, err |-> ErrNoCreds, trace |-> <<>>]

\* GetGoogleCreds without its file branch
GetGoogleCreds_NoFileBranch(c, f) ==
  LET s == c.GoogleCredsJSON IN
  IF Len(s) > 0 THEN
    IF DecodeString(s).ok THEN
      [bytes |-> DecodeString(s).bytes, err |-> NoError,
       trace |-> <<"decode">>]
    ELSE [bytes |-> StringBytes(s), err |-> NoError, trace |-> <<"decode">>]
  ELSE [bytes |-> <<>>, err |-> ErrNoCreds, trace |-> <<>>]

\* GetGoogleCreds failing where it should return the field itself
GetGoogleCreds_NoRawBranch(c, f) ==
  LET s == c.GoogleCredsJSON IN
  IF Len(s) > 0 THEN
    IF DecodeString(s).ok THEN
      [bytes |-> DecodeString(s).bytes, err |-> NoError,
       trace |-> <<"decode">>]
    ELSE IF Stat(f, s) THEN
      LET r == ReadFile(f, s) IN
      [bytes |-> r.bytes, err |-> r.err,
       trace |-> <<"decode", "stat", "read">>]
    ELSE [bytes |-> <<>>, err |-> ErrNoCreds, trace |-> <<"decode", "stat">>]
  ELSE [bytes |-> <<>>, err |-> ErrNoCreds, trace |-> <<>>]

\* GetGoogleCreds without its test for an empty field
GetGoogleCreds_NoLengthGuard(c, f) ==
  LET s == c.GoogleCredsJSON IN
  IF DecodeString(s).ok THEN
    [bytes |-> DecodeString(s).bytes, err |-> NoError, trace |-> <<"decode">>]
  ELSE IF Stat(f, s) THEN
    LET r == ReadFile(f, s) IN
    [bytes |-> r.bytes, err |-> r.err, trace |-> <<"decode", "stat", "read">>]
  ELSE [bytes |-> StringBytes(s), err |-> NoError,
        trace |-> <<"decode", "stat">>]

\* GetGoogleCreds replacing the outcome of the read by its own error
GetGoogleCreds_ReadErrorDropped(c, f) ==
  LET s == c.GoogleCredsJSON IN
  IF Len(s) > 0 THEN
    IF DecodeString(s).ok THEN
      [bytes |-> DecodeString(s).bytes, err |-> NoError,
       trace |-> <<"decode">>]
    ELSE IF Stat(f, s) THEN
      [bytes |-> ReadFile(f, s).bytes, err |-> ErrNoCreds,
       trace |-> <<"decode", "stat", "read">>]
    ELSE [bytes |-> StringBytes(s), err |-> NoError,
          trace |-> <<"decode", "stat">>]
  ELSE [bytes |-> <<>>, err |-> ErrNoCreds, trace |-> <<>>]

\* Config.GetGoogleCreds over the filesystem f: the bytes and error it
\* returns, and the sequence of attempts it made on the way
GetGoogleCreds(c, f) ==
  LET s == c.GoogleCredsJSON IN
  IF Len(s) > 0 THEN
    IF DecodeString(s).ok THEN
      [bytes |-> DecodeString(s).bytes, err |-> NoError,
       trace |-> <<"decode">>]
    ELSE IF Stat(f, s) THEN
      LET r == ReadFile(f, s) IN
      [bytes |-> r.bytes, err |-> r.err,
       trace |-> <<"decode", "stat", "read">>]
    ELSE [bytes |-> StringBytes(s), err |-> NoError,
          trace |-> <<"decode", "stat">>]
  ELSE [bytes |-> <<>>, err |-> ErrNoCreds, trace |-> <<>>]

\* ---------------------------------------------------------- calendar types
\* a time.Time: seconds, a sub-second part, the zone offset of its location
MakeTime(sec, nsec, off) == [sec |-> sec, nsec |-> nsec, off |-> off]

ZeroTime == MakeTime(0, 0, 0)

\* a timestamp string: the text of an RFC3339 instant, or text that is not
MakeStamp(sec, off) == [valid |-> TRUE, sec |-> sec, off |-> off]

BadStamp == [valid |-> FALSE, sec |-> 0, off |-> 0]

\* t.Format(time.RFC3339): whole seconds and the offset, no sub-second part
FormatRFC3339(t) == MakeStamp(t.sec, t.off)

\* time.Parse(time.RFC3339, s)
ParseRFC3339(s) ==
  IF s.valid THEN [ok |-> TRUE, time |-> MakeTime(s.sec, 0, s.off)]
  ELSE [ok |-> FALSE, time |-> ZeroTime]

\* gcal.EventDateTime
EventDateTime(stamp, tz) == [Date |-> "", DateTime |-> stamp, TimeZone |-> tz]

\* gcal.EventAttendee
EventAttendee(email, name) == [Email |-> email, DisplayName |-> name]

\* gcal.Event: the fields the adapter writes, and two it never names
MakeEvent(id, summary, descr, start, end, loc, attendees, color, ext) ==
  [Id |-> id, Summary |-> summary, Description |-> descr,
   Start |-> start, End |-> end, Location |-> loc,
   Attendees |-> attendees, ColorId |-> color,
   ExtendedProperties |-> ext]

\* the zero gcal.Event
EmptyEvent ==
  MakeEvent("", "", "", EventDateTime(BadStamp, ""), EventDateTime(BadStamp, ""),
            "", <<>>, "", "")

\* calendar.Appointment
MakeAppointment(summary, description, start, end, name, email, location, tz) ==
  [Summary |-> summary, Description |-> description, Start |-> start,
   End |-> end, AttendeeName |-> name, AttendeeEmail |-> email,
   Location |-> location, Timezone |-> tz]

\* the appointments callers pass: a full one, one with an attendee name but
\* no email and a sub-second start, and the zero Appointment
Appointments ==
  {MakeAppointment("s1", "d1", MakeTime(0, 0, 0), MakeTime(1, 0, 0),
                   "Ann", "ann@x", "room", "UTC"),
   MakeAppointment("s2", "", MakeTime(1, 5, 0), MakeTime(2, 0, 3600),
                   "Bob", "", "", "Europe/Lisbon"),
   MakeAppointment("", "", ZeroTime, ZeroTime, "", "", "", "")}

\* ------------------------------------------------------------ remote calendar
\* the calendars that exist remotely
RemoteCalendars == {"cal1", "cal2"}

\* the event identifiers of the model
EventIDs == {"e1", "e2"}

\* a remote call: the method, the calendar and event it addresses, the event
\* it carries and the free/busy request it carries
MakeCall(method, cal, id, body, query) ==
  [method |-> method, calendarId |-> cal, eventId |-> id, body |-> body,
   query |-> query]

NoQuery == [TimeMin |-> BadStamp, TimeMax |-> BadStamp, Items |-> <<>>]

\* Events.Get(calendarId, eventId).Do() against the remote state r
EventsGet(r, cal, id, fail) ==
  IF fail \/ cal \notin DOMAIN r \/ id \notin DOMAIN r[cal]
    THEN [ok |-> FALSE, event |-> EmptyEvent]
    ELSE [ok |-> TRUE, event |-> r[cal][id]]

\* Events.Insert(calendarId, event).Do(): the remote assigns the identifier
EventsInsert(r, cal, ev, newId, fail) ==
  IF fail \/ cal \notin DOMAIN r
    THEN [ok |-> FALSE, event |-> EmptyEvent, remote |-> r]
    ELSE LET created == [ev EXCEPT !.Id = newId] IN
         [ok |-> TRUE, event |-> created,
          remote |-> [r EXCEPT ![cal] =
                        [i \in DOMAIN r[cal] \cup {newId} |->
                           IF i = newId THEN created ELSE r[cal][i]]]]

\* Events.Update(calendarId, eventId, event).Do(): replaces the whole event
EventsUpdate(r, cal, id, ev, fail) ==
  IF fail \/ cal \notin DOMAIN r \/ id \notin DOMAIN r[cal]
    THEN [ok |-> FALSE, remote |-> r]
    ELSE [ok |-> TRUE,
          remote |-> [r EXCEPT ![cal][id] = [ev EXCEPT !.Id = id]]]

\* Events.Delete(calendarId, eventId).Do()
EventsDelete(r, cal, id, fail) ==
  IF fail \/ cal \notin DOMAIN r \/ id \notin DOMAIN r[cal]
    THEN [ok |-> FALSE, remote |-> r]
    ELSE [ok |-> TRUE,
          remote |-> [r EXCEPT ![cal] =
                        [i \in DOMAIN r[cal] \ {id} |-> r[cal][i]]]]

\* Freebusy.Query(query).Do(): fb is the Calendars map of the response
FreebusyQuery(fb, fail) ==
  IF fail THEN [ok |-> FALSE, Calendars |-> [cal \in {} |-> [Busy |-> <<>>]]]
  ELSE [ok |-> TRUE, Calendars |-> fb]

\* a busy interval of a free/busy response
TimePeriod(start, end) == [Start |-> start, End |-> end]

\* the free/busy answers of the model: intervals of two calendars with an
\* unparsable start among them, an answer without the first calendar, and an
\* answer whose only interval has an unparsable end
FreebusyResponses ==
  {[cal \in {"cal1", "cal2"} |->
      IF cal = "cal1"
        THEN [Busy |-> <<TimePeriod(MakeStamp(0, 0), MakeStamp(1, 0)),
                         TimePeriod(BadStamp, MakeStamp(2, 0)),
                         TimePeriod(MakeStamp(2, 3600), MakeStamp(3, 3600))>>]
        ELSE [Busy |-> <<TimePeriod(MakeStamp(5, 0), MakeStamp(6, 0))>>]],
   [cal \in {"cal2"} |->
      [Busy |-> <<TimePeriod(MakeStamp(5, 0), MakeStamp(6, 0))>>]],
   [cal \in {"cal1"} |->
      [Busy |-> <<TimePeriod(MakeStamp(0, 0), BadStamp)>>]]}

\* ------------------------------------------------------------------ adapter
ErrQuery == "failed to query free/busy"
ErrCreate == "failed to create calendar event"
ErrGet == "failed to get existing event"
ErrUpdate == "failed to update calendar event"
ErrDelete == "failed to delete calendar event"
SourceGoogle == "google_calendar"

\* what an operation returns and did: its error, its value (an event
\* identifier), its TimeBlocks, the remote calls it made in order, and the
\* remote state it leaves
Outcome(err, ret, blocks, calls, r) ==
  [err |-> err, ret |-> ret, blocks |-> blocks, calls |-> calls, remote |-> r]

\* the scan of ListBusy ending at the first interval that does not parse
BusyBlocks_StopAtUnparsable(calendars, cal) ==
  IF cal \in DOMAIN calendars THEN
    LET busy == calendars[cal].Busy
        good(b) == ParseRFC3339(b.Start).ok /\ ParseRFC3339(b.End).ok
        n == IF \E k \in 1..Len(busy) : ~good(busy[k])
               THEN (CHOOSE k \in 1..Len(busy) :
                       ~good(busy[k]) /\ \A j \in 1..(k - 1) : good(busy[j])) - 1
               ELSE Len(busy)
    IN [i \in 1..n |->
          [Start |-> ParseRFC3339(busy[i].Start).time,
           End |-> ParseRFC3339(busy[i].End).time,
           Source |-> SourceGoogle]]
  ELSE <<>>

\* the scan of ListBusy falling back on another calendar of the response
\* when the bound one has no entry
BusyBlocks_AnyCalendar(calendars, cal) ==
  IF calendars = [c \in {} |-> [Busy |-> <<>>]] THEN <<>>
  ELSE
    LET src == IF cal \in DOMAIN calendars THEN cal
               ELSE CHOOSE c \in DOMAIN calendars : TRUE
        kept == SelectSeq(calendars[src].Busy,
                          LAMBDA b : ParseRFC3339(b.Start).ok
                                       /\ ParseRFC3339(b.End).ok)
    IN [i \in 1..Len(kept) |->
          [Start |-> ParseRFC3339(kept[i].Start).time,
           End |-> ParseRFC3339(kept[i].End).time,
           Source |-> SourceGoogle]]

\* the TimeBlocks ListBusy builds from a response for calendar cal
BusyBlocks(calendars, cal) ==
  IF cal \in DOMAIN calendars THEN
    LET kept == SelectSeq(calendars[cal].Busy,
                          LAMBDA b : ParseRFC3339(b.Start).ok
                                       /\ ParseRFC3339(b.End).ok) IN
    [i \in 1..Len(kept) |->
       [Start |-> ParseRFC3339(kept[i].Start).time,
        End |-> ParseRFC3339(kept[i].End).time,
        Source |-> SourceGoogle]]
  ELSE <<>>

\* ListBusy returning an empty list and no error when the query fails
ListBusy_SwallowError(c, r, fb, from, to, fail) ==
  LET query == [TimeMin |-> FormatRFC3339(from), TimeMax |-> FormatRFC3339(to),
                Items |-> <<c.calendarID>>]
      call == MakeCall("freebusy.query", "", "", EmptyEvent, query)
      result == FreebusyQuery(fb, fail)
  IN Outcome(NoError, "", BusyBlocks(result.Calendars, c.calendarID),
             <<call>>, r)

\* Client.ListBusy(from, to) of adapter c
ListBusy(c, r, fb, from, to, fail) ==
  LET query == [TimeMin |-> FormatRFC3339(from), TimeMax |-> FormatRFC3339(to),
                Items |-> <<c.calendarID>>]
      call == MakeCall("freebusy.query", "", "", EmptyEvent, query)
      result == FreebusyQuery(fb, fail)
  IN IF ~result.ok THEN Outcome(ErrQuery, "", <<>>, <<call>>, r)
     ELSE Outcome(NoError, "", BusyBlocks(result.Calendars, c.calendarID),
                  <<call>>, r)

\* the event built with an attendee whenever a name or an email is given,
\* the name sent along
NewEvent_WithName(appt) ==
  MakeEvent("", appt.Summary, appt.Description,
            EventDateTime(FormatRFC3339(appt.Start), appt.Timezone),
            EventDateTime(FormatRFC3339(appt.End), appt.Timezone),
            appt.Location,
            IF appt.AttendeeEmail # "" \/ appt.AttendeeName # ""
              THEN <<EventAttendee(appt.AttendeeEmail, appt.AttendeeName)>>
              ELSE <<>>,
            "", "")

\* the gcal.Event CreateEvent builds from an Appointment
NewEvent(appt) ==
  MakeEvent("", appt.Summary, appt.Description,
            EventDateTime(FormatRFC3339(appt.Start), appt.Timezone),
            EventDateTime(FormatRFC3339(appt.End), appt.Timezone),
            appt.Location,
            IF appt.AttendeeEmail # ""
              THEN <<EventAttendee(appt.AttendeeEmail, "")>> ELSE <<>>,
            "", "")

\* CreateEvent repeating a failed insert once
CreateEvent_Retry(c, r, appt, newId, fail) ==
  LET call == MakeCall("events.insert", c.calendarID, "", NewEvent(appt), NoQuery)
      result == EventsInsert(r, c.calendarID, NewEvent(appt), newId, fail)
  IN IF ~result.ok THEN Outcome(ErrCreate, "", <<>>, <<call, call>>, r)
     ELSE Outcome(NoError, result.event.Id, <<>>, <<call>>, result.remote)

\* Client.CreateEvent(appt) of adapter c
CreateEvent(c, r, appt, newId, fail) ==
  LET call == MakeCall("events.insert", c.calendarID, "", NewEvent(appt), NoQuery)
      result == EventsInsert(r, c.calendarID, NewEvent(appt), newId, fail)
  IN IF ~result.ok THEN Outcome(ErrCreate, "", <<>>, <<call>>, r)
     ELSE Outcome(NoError, result.event.Id, <<>>, <<call>>, result.remote)

\* the write built afresh from the Appointment, keeping only the identifier
\* and the attendees of the fetched event
MergeEvent_Rebuild(existing, appt) ==
  [NewEvent(appt) EXCEPT
     !.Id = existing.Id,
     !.Attendees = IF appt.AttendeeEmail # ""
                     THEN <<EventAttendee(appt.AttendeeEmail, "")>>
                     ELSE existing.Attendees]

\* the write that clears the custom metadata of the fetched event
MergeEvent_DropExtended(existing, appt) ==
  [existing EXCEPT
     !.Summary = appt.Summary,
     !.Description = appt.Description,
     !.Start = EventDateTime(FormatRFC3339(appt.Start), appt.Timezone),
     !.End = EventDateTime(FormatRFC3339(appt.End), appt.Timezone),
     !.Location = appt.Location,
     !.Attendees = IF appt.AttendeeEmail # ""
                     THEN <<EventAttendee(appt.AttendeeEmail, "")>> ELSE @,
     !.ExtendedProperties = ""]

\* the write that assigns the attendee list whatever the email is
MergeEvent_ClearAttendees(existing, appt) ==
  [existing EXCEPT
     !.Summary = appt.Summary,
     !.Description = appt.Description,
     !.Start = EventDateTime(FormatRFC3339(appt.Start), appt.Timezone),
     !.End = EventDateTime(FormatRFC3339(appt.End), appt.Timezone),
     !.Location = appt.Location,
     !.Attendees = IF appt.AttendeeEmail # ""
                     THEN <<EventAttendee(appt.AttendeeEmail, "")>> ELSE <<>>]

\* the event UpdateEvent writes back: the fetched event with the fields of
\* the Appointment assigned over it
MergeEvent(existing, appt) ==
  [existing EXCEPT
     !.Summary = appt.Summary,
     !.Description = appt.Description,
     !.Start = EventDateTime(FormatRFC3339(appt.Start), appt.Timezone),
     !.End = EventDateTime(FormatRFC3339(appt.End), appt.Timezone),
     !.Location = appt.Location,
     !.Attendees = IF appt.AttendeeEmail # ""
                     THEN <<EventAttendee(appt.AttendeeEmail, "")>> ELSE @]

\* UpdateEvent going on to its write whatever its Events.Get returned
UpdateEventGet_IgnoreError(c, r, eventID, fail) ==
  LET call == MakeCall("events.get", c.calendarID, eventID, EmptyEvent, NoQuery)
      result == EventsGet(r, c.calendarID, eventID, fail)
  IN [ok |-> TRUE, existingEvent |-> result.event,
      out |-> Outcome(NoError, "", <<>>, <<call>>, r)]

\* Client.UpdateEvent(eventID, appt), up to the return of its Events.Get
UpdateEventGet(c, r, eventID, fail) ==
  LET call == MakeCall("events.get", c.calendarID, eventID, EmptyEvent, NoQuery)
      result == EventsGet(r, c.calendarID, eventID, fail)
  IN [ok |-> result.ok, existingEvent |-> result.event,
      out |-> Outcome(IF result.ok THEN NoError ELSE ErrGet, "", <<>>,
                      <<call>>, r)]

\* the write made conditional on the event being unchanged since the fetch
UpdateEventPut_IfUnchanged(c, r, eventID, appt, existingEvent, getCalls, fail) ==
  LET merged == MergeEvent(existingEvent, appt)
      call == MakeCall("events.update", c.calendarID, eventID, merged, NoQuery)
      result == EventsUpdate(r, c.calendarID, eventID, merged, fail)
      stale == result.ok /\ r[c.calendarID][eventID] # existingEvent
  IN Outcome(IF result.ok /\ ~stale THEN NoError ELSE ErrUpdate, "", <<>>,
             Append(getCalls, call), IF stale THEN r ELSE result.remote)

\* Client.UpdateEvent(eventID, appt), from the assignments to its return
UpdateEventPut(c, r, eventID, appt, existingEvent, getCalls, fail) ==
  LET merged == MergeEvent(existingEvent, appt)
      call == MakeCall("events.update", c.calendarID, eventID, merged, NoQuery)
      result == EventsUpdate(r, c.calendarID, eventID, merged, fail)
  IN Outcome(IF result.ok THEN NoError ELSE ErrUpdate, "", <<>>,
             Append(getCalls, call), result.remote)

\* DeleteEvent reporting success whatever Events.Delete returned
DeleteEvent_SwallowError(c, r, eventID, fail) ==
  LET call == MakeCall("events.delete", c.calendarID, eventID, EmptyEvent, NoQuery)
      result == EventsDelete(r, c.calendarID, eventID, fail)
  IN Outcome(NoError, "", <<>>, <<call>>, result.remote)

\* Client.DeleteEvent(eventID) of adapter c
DeleteEvent(c, r, eventID, fail) ==
  LET call == MakeCall("events.delete", c.calendarID, eventID, EmptyEvent, NoQuery)
      result == EventsDelete(r, c.calendarID, eventID, fail)
  IN Outcome(IF result.ok THEN NoError ELSE ErrDelete, "", <<>>, <<call>>,
             result.remote)

\* a method that assigns the receiver's calendar identifier
ClientAfter_Rebind(c, op) ==
  IF op = "DeleteEvent" THEN [c EXCEPT !.calendarID = "primary"] ELSE c

\* the fields of adapter c after one of its four methods has run on it: the
\* methods read c.service and c.calendarID and assign neither
ClientAfter(c, op) == c

\* the service-identity document google.JWTConfigFromJSON accepts: {} stands
\* for a well-formed service-account JSON text
IsServiceAccountJSON(bytes) == bytes = <<123, 125>>

ErrGetCreds == "failed to get Google credentials"
ErrJWTConfig == "failed to create JWT config"
ErrService == "failed to create calendar service"

\* no adapter: the nil *Client
NoClient == [service |-> "", calendarID |-> ""]

\* NewClient taking any resolved bytes for a credential document
NewClient_SkipJWTCheck(c, f, session, serviceFails) ==
  LET creds == GetGoogleCreds(c, f) IN
  IF creds.err # NoError THEN [client |-> NoClient, err |-> ErrGetCreds]
  ELSE IF serviceFails THEN [client |-> NoClient, err |-> ErrService]
  ELSE [client |-> [service |-> session, calendarID |-> c.GCalCalendarID],
        err |-> NoError]

\* NewClient refusing a calendar identifier the remote does not know
NewClient_CheckCalendar(c, f, session, serviceFails) ==
  LET creds == GetGoogleCreds(c, f) IN
  IF creds.err # NoError THEN [client |-> NoClient, err |-> ErrGetCreds]
  ELSE IF ~IsServiceAccountJSON(creds.bytes)
    THEN [client |-> NoClient, err |-> ErrJWTConfig]
  ELSE IF serviceFails THEN [client |-> NoClient, err |-> ErrService]
  ELSE IF c.GCalCalendarID \notin {"cal1", "cal2"}
    THEN [client |-> NoClient, err |-> "calendar not found"]
  ELSE [client |-> [service |-> session, calendarID |-> c.GCalCalendarID],
        err |-> NoError]

\* NewClient(cfg): the adapter and the error it returns; session names the
\* service handle a successful construction makes
NewClient(c, f, session, serviceFails) ==
  LET creds == GetGoogleCreds(c, f) IN
  IF creds.err # NoError THEN [client |-> NoClient, err |-> ErrGetCreds]
  ELSE IF ~IsServiceAccountJSON(creds.bytes)
    THEN [client |-> NoClient, err |-> ErrJWTConfig]
  ELSE IF serviceFails THEN [client |-> NoClient, err |-> ErrService]
  ELSE [client |-> [service |-> session, calendarID |-> c.GCalCalendarID],
        err |-> NoError]

\* ------------------------------------------------------------ entry points
\* 24 * time.Hour, in seconds
Day == 86400

\* t.Add(d) for a duration of d seconds
AddDuration(t, d) == [t EXCEPT !.sec = @ + d]

\* time.Parse("2006-01-02", s): midnight UTC of the day, counted from
\* 2026-01-01; any other text does not parse
ParseDate(s) ==
  CASE s = "2026-01-01" -> [ok |-> TRUE, time |-> MakeTime(0, 0, 0)]
    [] s = "2026-01-02" -> [ok |-> TRUE, time |-> MakeTime(Day, 0, 0)]
    [] s = "2026-01-03" -> [ok |-> TRUE, time |-> MakeTime(2 * Day, 0, 0)]
    [] OTHER -> [ok |-> FALSE, time |-> ZeroTime]

\* time.Parse("2006-01-02T15:04:05", s)
ParseDateTime(s) ==
  CASE s = "2026-01-01T00:00:01" -> [ok |-> TRUE, time |-> MakeTime(1, 0, 0)]
    [] s = "2026-01-01T00:00:02" -> [ok |-> TRUE, time |-> MakeTime(2, 0, 0)]
    [] OTHER -> [ok |-> FALSE, time |-> ZeroTime]

\* the health summary counting a one-character credential field as absent
Healthz_LongCredsOnly(c) ==
  [status |-> "ok", env |-> c.Env, http_port |-> c.HttpPort,
   timezone |-> c.Timezone, gcal_calendar_id |-> c.GCalCalendarID,
   has_google_creds |-> Len(c.GoogleCredsJSON) > 1,
   has_supabase_url |-> c.SupabaseURL # "",
   has_supabase_key |-> c.SupabaseKey # "",
   redis_url |-> c.RedisURL]

\* the JSON body of GET /healthz for the Config c
Healthz(c) ==
  [status |-> "ok", env |-> c.Env, http_port |-> c.HttpPort,
   timezone |-> c.Timezone, gcal_calendar_id |-> c.GCalCalendarID,
   has_google_creds |-> Len(c.GoogleCredsJSON) > 0,
   has_supabase_url |-> c.SupabaseURL # "",
   has_supabase_key |-> c.SupabaseKey # "",
   redis_url |-> c.RedisURL]

\* the API server logging a failed Load and starting all the same
ApiMain_WarnOnly(err, listenFails) ==
  IF listenFails THEN [at |-> "exited", exit |-> 1]
  ELSE [at |-> "serving", exit |-> 0]

\* main of cmd/api up to app.Listen: where the process is once Load has
\* returned err and the listener has started or failed to
ApiMain(err, listenFails) ==
  IF err # NoError THEN [at |-> "exited", exit |-> 1]
  ELSE IF listenFails THEN [at |-> "exited", exit |-> 1]
  ELSE [at |-> "serving", exit |-> 0]

\* the CLI constructing its client whenever a credential field is given
CliClientWanted_CredsOnly(c) == c.GoogleCredsJSON # <<>>

\* the condition under which init of cmd/cli calls google.NewClient
CliClientWanted(c) == c.GCalCalendarID # "" /\ c.GoogleCredsJSON # <<>>

\* a command that returned before any remote call, with the given status
CmdEnded(status, r) ==
  [exit |-> status, called |-> FALSE, out |-> Outcome(NoError, "", <<>>, <<>>, r)]

\* a command that called the adapter: status 1 when the call failed
CmdCalled(out) ==
  [exit |-> IF out.err # NoError THEN 1 ELSE 0, called |-> TRUE, out |-> out]

\* Run of listBusyCmd with the flags --from and --to
ListBusyCmd(client, r, fb, fromStr, toStr, fail) ==
  IF client = NoClient THEN CmdEnded(1, r)
  ELSE IF ~ParseDate(fromStr).ok THEN CmdEnded(1, r)
  ELSE IF ~ParseDate(toStr).ok THEN CmdEnded(1, r)
  ELSE LET from == AddDuration(ParseDate(fromStr).time, Day)
           to == AddDuration(ParseDate(toStr).time, Day)
       IN CmdCalled(ListBusy(client, r, fb, from, to, fail))

\* the Appointment createEventCmd builds from its flags
CmdAppointment(a) ==
  MakeAppointment(a.summary, "", ParseDateTime(a.start).time,
                  ParseDateTime(a.end).time, "", a.email, "", "UTC")

\* Run of createEventCmd with the flags a
CreateEventCmd(client, r, a, newId, fail) ==
  IF client = NoClient THEN CmdEnded(1, r)
  ELSE IF a.summary = "" THEN CmdEnded(1, r)
  ELSE IF a.start = "" \/ a.end = "" THEN CmdEnded(1, r)
  ELSE IF ~ParseDateTime(a.start).ok THEN CmdEnded(1, r)
  ELSE IF ~ParseDateTime(a.end).ok THEN CmdEnded(1, r)
  ELSE CmdCalled(CreateEvent(client, r, CmdAppointment(a), newId, fail))

\* time.Now() of the connection test program
Now == MakeTime(Day + 2, 9, 0)

\* the test appointment of the connection test program
TestAppt ==
  MakeAppointment("Test Appointment - Bot Connection",
                  "This is a test event to verify the service account connection",
                  AddDuration(Now, 3600), AddDuration(Now, 7200),
                  "", "", "Test Location", "UTC")

\* ------------------------------------------------------------------- state
VARIABLES
  env,        \* the process environment: EnvKeys -> [set, val]
  dotenv,     \* the overlay file .env
  configenv,  \* the overlay file config.env
  fs,         \* the files a credential field can name: CredPaths -> entry
  pc,         \* "start", "loaded" after Load, "resolved" after GetGoogleCreds
  cfg,        \* the Config value Load returned
  loadErr,    \* the error Load returned
  credsOut,   \* what GetGoogleCreds returned
  clients,    \* the adapters constructed: Insts -> Client, NoClient for nil
  newErr,     \* the error NewClient returned for each of them
  remote,     \* the remote calendars: calendar -> event identifier -> event
  freebusy,   \* for each caller, the answer to its last free/busy query
  th,         \* the callers: the operation each runs or last ran, its outcome
  nops,       \* adapter operations started so far
  replyOk,    \* for each caller, whether its latest remote call succeeded
  proc        \* the running program: its entry point, position, exit status,
              \* command and flags, health answer and remote calls so far

configVars == <<env, dotenv, configenv, fs, pc, cfg, loadErr, credsOut, proc>>

adapterVars == <<clients, newErr, remote, freebusy, th, nops, replyOk>>

vars == <<env, dotenv, configenv, fs, pc, cfg, loadErr, credsOut,
          clients, newErr, remote, freebusy, th, nops, replyOk, proc>>

\* the adapter instances and the callers of the model
Insts == {"c1", "c2"}
Callers == {"t1", "t2"}

\* a caller that has run no operation
IdleCaller ==
  [pc |-> "idle", op |-> "none", inst |-> "", eventID |-> "",
   appt |-> MakeAppointment("", "", ZeroTime, ZeroTime, "", "", "", ""),
   existing |-> EmptyEvent,
   err |-> NoError, ret |-> "", blocks |-> <<>>, calls |-> <<>>]

\* a caller whose operation op returned with outcome out
Returned(op, inst, eventID, appt, existing, out) ==
  [pc |-> "idle", op |-> op, inst |-> inst, eventID |-> eventID,
   appt |-> appt, existing |-> existing,
   err |-> out.err, ret |-> out.ret, blocks |-> out.blocks,
   calls |-> out.calls]

\* the event the remote calendar cal1 holds at the start
OldEvent(attendees, extended) ==
  MakeEvent("e1", "old", "olddesc",
            [Date |-> "2026-01-01", DateTime |-> BadStamp, TimeZone |-> ""],
            EventDateTime(MakeStamp(2, 0), "UTC"),
            "oldloc", attendees, "7", extended)

\* no adapter constructed, no operation run
AdapterInit ==
  /\ clients = [i \in Insts |-> NoClient]
  /\ newErr = [i \in Insts |-> NoError]
  /\ th = [t \in Callers |-> IdleCaller]
  /\ nops = 0
  /\ replyOk = [t \in Callers |-> TRUE]

\* one remote calendar holding the given event, a second one holding none
RemoteHolding(ev) ==
  [cal \in RemoteCalendars |->
     [i \in (IF cal = "cal1" THEN {"e1"} ELSE {}) |-> ev]]

\* no free/busy query answered yet
NoResponse == [cal \in {} |-> [Busy |-> <<>>]]

\* the answer a caller holds before its first query
NoAnswer == [ok |-> FALSE, Calendars |-> NoResponse]

\* the remote calendars at the start: the event is a bare one, or one with
\* two attendees and custom metadata
RemoteInit ==
  /\ \E ev \in {OldEvent(<<>>, ""),
                OldEvent(<<EventAttendee("old@x", "Old"),
                           EventAttendee("two@x", "")>>, "meta")} :
       remote = RemoteHolding(ev)
  /\ freebusy = [t \in Callers |-> NoAnswer]

\* one remote state, for the runs that make no remote call
RemoteIdle ==
  /\ remote = RemoteHolding(OldEvent(<<>>, "meta"))
  /\ freebusy = [t \in Callers |-> NoAnswer]

AbsentFile == [kind |-> "absent", vars |-> <<>>]
MalformedFile == [kind |-> "malformed", vars |-> <<>>]
ParsedFile(m) == [kind |-> "ok", vars |-> m]

\* the environment with no variable set
EmptyEnv == [k \in EnvKeys |-> Unset(k)]

\* the Config of an empty environment
DefaultConfig == ResolveConfig(EmptyEnv)

NoCreds == [bytes |-> <<>>, err |-> NoError, trace |-> <<>>]

\* the flags of a command: unset string flags are empty
MakeArgs(from, to, summary, start, end, email) ==
  [from |-> from, to |-> to, summary |-> summary, start |-> start,
   end |-> end, email |-> email]

NoArgs == MakeArgs("", "", "", "", "", "")

\* no health answer given
NoSummary ==
  [status |-> "", env |-> "", http_port |-> "", timezone |-> "",
   gcal_calendar_id |-> "", has_google_creds |-> FALSE,
   has_supabase_url |-> FALSE, has_supabase_key |-> FALSE, redis_url |-> ""]

\* a program of the given entry point before its first statement
ProcOf(entry) ==
  [entry |-> entry, at |-> "start", exit |-> 0, cmd |-> "none",
   args |-> NoArgs, response |-> NoSummary, calls |-> <<>>]

\* no program running: the configuration and the adapter are used directly
NoProc == ProcOf("none")

\* --------------------------------------------- credential resolution, alone
\* any credential field of bounded length over any state of the two paths
InitCreds ==
  /\ env = EmptyEnv
  /\ dotenv = AbsentFile
  /\ configenv = AbsentFile
  /\ fs \in [CredPaths -> FsEntries]
  /\ pc = "start"
  /\ \E s \in StringsUpTo(MaxLen) :
       cfg = [DefaultConfig EXCEPT !.GoogleCredsJSON = s]
  /\ loadErr = NoError
  /\ credsOut = NoCreds
  /\ proc = NoProc
  /\ AdapterInit
  /\ RemoteIdle

\* a call of cfg.GetGoogleCreds()
ResolveCreds ==
  /\ pc = "start"
  /\ credsOut' = GetGoogleCreds(cfg, fs)
  /\ pc' = "resolved"
  /\ UNCHANGED <<env, dotenv, configenv, fs, cfg, loadErr, proc>>
  /\ UNCHANGED adapterVars

NextCreds == ResolveCreds

SpecCreds == InitCreds /\ [][NextCreds]_vars

\* the credential field GetGoogleCreds was called on
Field == cfg.GoogleCredsJSON

\* C1: a non-empty field that is valid standard base64 resolves to exactly
\* its decoded bytes and no error, whatever the filesystem holds under the
\* same name: the base64 branch wins over the file and the raw branch.
C1_Base64Wins ==
  (pc = "resolved" /\ Len(Field) > 0 /\ DecodeString(Field).ok)
    => /\ credsOut.bytes = DecodeString(Field).bytes
       /\ credsOut.err = NoError
       /\ credsOut.trace = <<"decode">>

\* "A/AA" is valid base64 and names an existing file: the decoded bytes
\* 3, 240, 0 were returned, not the file's content
C1_Witness ==
  /\ pc = "resolved"
  /\ Field = <<"A", "/", "A", "A">>
  /\ fs[Field].kind = "file"
  /\ credsOut.bytes = <<3, 240, 0>>
  /\ credsOut.bytes # fs[Field].data

\* C2: a field that is not valid base64 and names an existing regular file
\* resolves to exactly that file's bytes, not to the bytes of the field.
C2_FileContent ==
  (pc = "resolved" /\ ~DecodeString(Field).ok
     /\ Field \in CredPaths /\ fs[Field].kind = "file")
    => /\ credsOut.bytes = fs[Field].data
       /\ credsOut.err = NoError

\* "A." is not base64 and names a file holding {}: {} was returned
C2_Witness ==
  /\ pc = "resolved"
  /\ Field = <<"A", ".">>
  /\ fs[Field] = [kind |-> "file", data |-> <<123, 125>>]
  /\ credsOut.bytes = <<123, 125>>
  /\ credsOut.bytes # StringBytes(Field)

\* C3: a non-empty field that is neither valid base64 nor an existing path
\* resolves to the bytes of the field itself and no error.
C3_RawBytes ==
  (pc = "resolved" /\ Len(Field) > 0 /\ ~DecodeString(Field).ok
     /\ ~Stat(fs, Field))
    => /\ credsOut.bytes = StringBytes(Field)
       /\ credsOut.err = NoError

\* both a field no path of the model carries and a field whose path is
\* absent were returned as their own bytes
C3_Witness ==
  /\ pc = "resolved"
  /\ \/ Field = <<"{", "}">> /\ credsOut.bytes = <<123, 125>>
     \/ /\ Field = <<"A", ".">> /\ fs[Field].kind = "none"
        /\ credsOut.bytes = <<65, 46>>
  /\ credsOut.err = NoError

\* C4: an empty field yields no bytes and the "no Google credentials
\* provided" error, with no base64 decoding and no file access attempted.
C4_EmptyField ==
  (pc = "resolved" /\ Len(Field) = 0)
    => /\ credsOut.bytes = <<>>
       /\ credsOut.err = ErrNoCreds
       /\ credsOut.trace = <<>>

C4_Witness ==
  /\ pc = "resolved"
  /\ Field = <<>>
  /\ credsOut.err = ErrNoCreds

\* C5 as stated: GetGoogleCreds fails only when the field is empty; every
\* non-empty field, over every filesystem state, yields bytes and no error.
C5_FailsOnlyWhenEmpty ==
  pc = "resolved" => (credsOut.err # NoError <=> Len(Field) = 0)

\* C5 amended: GetGoogleCreds fails exactly when the field is empty or when
\* the field is not valid base64, names an existing path and reading that
\* path fails; the error is then the read error, not the "no credentials"
\* error.
C5_FailsWhenEmptyOrUnreadable ==
  pc = "resolved" =>
    /\ credsOut.err # NoError <=>
         \/ Len(Field) = 0
         \/ /\ ~DecodeString(Field).ok
            /\ Stat(fs, Field)
            /\ ReadFile(fs, Field).err # NoError
    /\ credsOut.err = ErrNoCreds <=> Len(Field) = 0

\* "A." names a directory: the call failed with the read error
C5_Witness ==
  /\ pc = "resolved"
  /\ Field = <<"A", ".">>
  /\ fs[Field].kind = "dir"
  /\ credsOut.err = "read failed"
  /\ credsOut.bytes = <<>>

\* ------------------------------------------------------------- Load, alone
\* the values an environment variable takes in the model
EnvValues(k) ==
  CASE k = "APP_ENV" -> {"", "production", "Production", "development"}
    [] k = "GCAL_CALENDAR_ID" -> {"", "cal1"}
    [] k = "GOOGLE_CREDS_JSON" -> {<<>>, <<"{", "}">>}
    [] OTHER -> {"", "x"}

\* an environment variable of the model: not set, or set to one of its values
EnvChoices(k) == {Unset(k)} \cup {SetTo(v) : v \in EnvValues(k)}

\* the environment holding the eight given variables
MakeEnv(a, h, t, g, c, su, sk, r) ==
  [k \in EnvKeys |->
     CASE k = "APP_ENV" -> a
       [] k = "HTTP_PORT" -> h
       [] k = "TZ" -> t
       [] k = "GCAL_CALENDAR_ID" -> g
       [] k = "GOOGLE_CREDS_JSON" -> c
       [] k = "SUPABASE_URL" -> su
       [] k = "SUPABASE_KEY" -> sk
       [] k = "REDIS_URL" -> r]

\* the overlay files of the model
OverlayFiles ==
  {AbsentFile, MalformedFile,
   ParsedFile([k \in {"APP_ENV"} |-> "production"]),
   ParsedFile([k \in {"APP_ENV", "GCAL_CALENDAR_ID", "GOOGLE_CREDS_JSON"} |->
                 CASE k = "APP_ENV" -> "production"
                   [] k = "GCAL_CALENDAR_ID" -> "cal2"
                   [] k = "GOOGLE_CREDS_JSON" -> <<"A", ".">>])}

\* any environment, any pair of overlay files
InitLoad ==
  /\ \E a \in EnvChoices("APP_ENV"), h \in EnvChoices("HTTP_PORT"),
        t \in EnvChoices("TZ"), g \in EnvChoices("GCAL_CALENDAR_ID"),
        c \in EnvChoices("GOOGLE_CREDS_JSON"),
        su \in EnvChoices("SUPABASE_URL"), sk \in EnvChoices("SUPABASE_KEY"),
        r \in EnvChoices("REDIS_URL") :
       env = MakeEnv(a, h, t, g, c, su, sk, r)
  /\ dotenv \in OverlayFiles
  /\ configenv \in OverlayFiles
  /\ fs = [p \in CredPaths |-> NoEntry]
  /\ pc = "start"
  /\ cfg = DefaultConfig
  /\ loadErr = NoError
  /\ credsOut = NoCreds
  /\ proc = NoProc
  /\ AdapterInit
  /\ RemoteIdle

\* config.Load(): the overlay files, the eight settings, the validation
Load ==
  /\ pc = "start"
  /\ env' = OverlaidEnv(env, dotenv, configenv)
  /\ cfg' = ResolveConfig(env')
  /\ loadErr' = Validate(cfg')
  /\ pc' = "loaded"
  /\ UNCHANGED <<dotenv, configenv, fs, credsOut, proc>>
  /\ UNCHANGED adapterVars

NextLoad == Load

SpecLoad == InitLoad /\ [][NextLoad]_vars

\* C6: in production Load fails if and only if the resolved calendar
\* identifier or the resolved credential field is empty; no other setting
\* decides it.
C6_ProductionFailsIffRequiredEmpty ==
  (pc = "loaded" /\ cfg.Env = "production")
    => (loadErr # NoError
          <=> (cfg.GCalCalendarID = "" \/ cfg.GoogleCredsJSON = <<>>))

\* production with a calendar identifier and no credential field failed,
\* and production with both succeeded while other settings were empty
C6_Witness ==
  /\ pc = "loaded"
  /\ cfg.Env = "production"
  /\ cfg.GCalCalendarID # ""
  /\ cfg.GoogleCredsJSON = <<>>
  /\ loadErr = ErrCredsRequired
  /\ cfg.SupabaseURL = ""

\* C7: for every environment name other than the exact string
\* "production" Load returns no error, whichever settings are empty.
C7_NonProductionNeverFails ==
  (pc = "loaded" /\ cfg.Env # "production") => loadErr = NoError

\* "Production" with every other setting empty loaded without error
C7_Witness ==
  /\ pc = "loaded"
  /\ cfg.Env = "Production"
  /\ cfg.GCalCalendarID = ""
  /\ cfg.GoogleCredsJSON = <<>>
  /\ loadErr = NoError

\* C8: in production an empty calendar identifier yields the
\* calendar-identifier error whatever the credential field is, and the
\* credential error is reported only with a non-empty calendar identifier.
C8_CalendarCheckFirst ==
  pc = "loaded" =>
    /\ (cfg.Env = "production" /\ cfg.GCalCalendarID = "")
         => loadErr = ErrCalendarRequired
    /\ loadErr = ErrCredsRequired => cfg.GCalCalendarID # ""

\* production with both required settings empty: the calendar error
C8_Witness ==
  /\ pc = "loaded"
  /\ cfg.Env = "production"
  /\ cfg.GCalCalendarID = ""
  /\ cfg.GoogleCredsJSON = <<>>
  /\ loadErr = ErrCalendarRequired

\* C21: each of the eight settings resolves to its environment variable's
\* value when that is set and non-empty at the time Load reads it, and
\* otherwise, unset or set to the empty string, to its fixed default.
C21_SettingsOrDefaults ==
  pc = "loaded" =>
    LET given(k) == env[k].set /\ env[k].val # EmptyOf(k) IN
    /\ cfg.Env = IF given("APP_ENV") THEN env["APP_ENV"].val ELSE "development"
    /\ cfg.HttpPort = IF given("HTTP_PORT") THEN env["HTTP_PORT"].val ELSE "8080"
    /\ cfg.Timezone = IF given("TZ") THEN env["TZ"].val ELSE "UTC"
    /\ cfg.GCalCalendarID = IF given("GCAL_CALENDAR_ID")
                              THEN env["GCAL_CALENDAR_ID"].val ELSE ""
    /\ cfg.GoogleCredsJSON = IF given("GOOGLE_CREDS_JSON")
                               THEN env["GOOGLE_CREDS_JSON"].val ELSE <<>>
    /\ cfg.SupabaseURL = IF given("SUPABASE_URL")
                           THEN env["SUPABASE_URL"].val ELSE ""
    /\ cfg.SupabaseKey = IF given("SUPABASE_KEY")
                           THEN env["SUPABASE_KEY"].val ELSE ""
    /\ cfg.RedisURL = IF given("REDIS_URL") THEN env["REDIS_URL"].val
                        ELSE "redis://localhost:6379"

\* APP_ENV set to the empty string gave development, HTTP_PORT set to x gave
\* x, and an unset REDIS_URL gave the default address
C21_Witness ==
  /\ pc = "loaded"
  /\ env["APP_ENV"] = SetTo("") /\ cfg.Env = "development"
  /\ env["HTTP_PORT"] = SetTo("x") /\ cfg.HttpPort = "x"
  /\ ~env["REDIS_URL"].set /\ cfg.RedisURL = "redis://localhost:6379"
  /\ env["TZ"] = SetTo("") /\ cfg.Timezone = "UTC"

\* C22: Load applies the overlay files before it reads a setting, the first
\* found winning: a variable the process has not set takes the value .env
\* gives it, and the value config.env gives it only when .env is absent; a
\* missing or malformed file changes nothing, and Load fails for the
\* production validation only.
C22_OverlayFirstFoundWins ==
  [][(pc = "start" /\ pc' = "loaded") =>
       LET named(file, k) == file.kind = "ok" /\ k \in DOMAIN file.vars
           overlay(k) ==
             IF named(dotenv, k) THEN SetTo(dotenv.vars[k])
             ELSE IF dotenv.kind = "absent" /\ named(configenv, k)
               THEN SetTo(configenv.vars[k])
             ELSE Unset(k)
       IN /\ \A k \in EnvKeys :
               env'[k] = IF env[k].set THEN env[k] ELSE overlay(k)
          /\ cfg'.GCalCalendarID = env'["GCAL_CALENDAR_ID"].val
          /\ cfg'.GoogleCredsJSON = env'["GOOGLE_CREDS_JSON"].val
          /\ (dotenv.kind # "ok" /\ configenv.kind # "ok") => env' = env
          /\ loadErr' \in {NoError, ErrCalendarRequired, ErrCredsRequired}
          /\ loadErr' # NoError => cfg'.Env = "production"
  ]_vars

\* .env exists and names APP_ENV only, config.env names the calendar: the
\* calendar variable stayed unset and production validation failed for it
C22_Witness ==
  /\ pc = "loaded"
  /\ dotenv = ParsedFile([k \in {"APP_ENV"} |-> "production"])
  /\ configenv.kind = "ok"
  /\ "GCAL_CALENDAR_ID" \in DOMAIN configenv.vars
  /\ ~env["GCAL_CALENDAR_ID"].set
  /\ cfg.Env = "production"
  /\ loadErr = ErrCalendarRequired

\* C23 as stated: the process environment and every other piece of state
\* are the same after Load returns as before it was called.
C23_LoadChangesNothing ==
  [][(pc = "start" /\ pc' = "loaded") =>
       /\ env' = env
       /\ dotenv' = dotenv /\ configenv' = configenv /\ fs' = fs
       /\ clients' = clients /\ remote' = remote
  ]_vars

\* C23 amended: Load changes the process environment and nothing else: it
\* sets variables the process had not set, each to the value an overlay
\* file gives it, and leaves every variable already set, the empty string
\* included, as it was; files, adapters and remote state are untouched.
C23_LoadSetsOnlyUnsetVariables ==
  [][(pc = "start" /\ pc' = "loaded") =>
       /\ \A k \in EnvKeys :
            /\ env[k].set => env'[k] = env[k]
            /\ env'[k] # env[k] =>
                 /\ env'[k].set
                 /\ \E file \in {dotenv, configenv} :
                      /\ file.kind = "ok"
                      /\ k \in DOMAIN file.vars
                      /\ env'[k].val = file.vars[k]
       /\ dotenv' = dotenv /\ configenv' = configenv /\ fs' = fs
       /\ clients' = clients /\ remote' = remote
  ]_vars

\* the calendar variable, unset before, now holds the value of an overlay
\* file, while APP_ENV, set to the empty string, was left alone though the
\* file names it
C23_Witness ==
  /\ pc = "loaded"
  /\ env["GCAL_CALENDAR_ID"] = SetTo("cal2")
  /\ env["APP_ENV"] = SetTo("")
  /\ cfg.GCalCalendarID = "cal2"
  /\ cfg.Env = "development"

\* ------------------------------------------------------- the adapter at work
\* operations started in one run
MaxOps == 2

\* the time windows ListBusy is called with
Windows == {<<MakeTime(0, 0, 0), MakeTime(3, 7, 0)>>}

\* the environments of the adapter runs: a calendar that exists remotely,
\* one that does not or none at all, and a credential field that is unset,
\* base64 or raw text of something that is no credential document, or the
\* path of a credential document
Init ==
  /\ \E g \in {SetTo("cal1"), SetTo("nocal"), Unset("GCAL_CALENDAR_ID")},
        c \in {Unset("GOOGLE_CREDS_JSON"), SetTo(<<"A", "A", "A", "A">>),
               SetTo(<<"{">>), SetTo(<<"A", ".">>)} :
       env = MakeEnv(Unset("APP_ENV"), Unset("HTTP_PORT"), Unset("TZ"), g, c,
                     Unset("SUPABASE_URL"), Unset("SUPABASE_KEY"),
                     Unset("REDIS_URL"))
  /\ dotenv = AbsentFile
  /\ configenv = AbsentFile
  /\ fs = [p \in CredPaths |->
             IF p = <<"A", ".">> THEN [kind |-> "file", data |-> <<123, 125>>]
             ELSE NoEntry]
  /\ pc = "start"
  /\ cfg = DefaultConfig
  /\ loadErr = NoError
  /\ credsOut = NoCreds
  /\ proc = NoProc
  /\ AdapterInit
  /\ RemoteInit

\* google.NewClient(cfg) for adapter i
Construct(i) ==
  /\ pc = "loaded"
  /\ loadErr = NoError
  /\ clients[i] = NoClient
  /\ newErr[i] = NoError
  /\ \E serviceFails \in BOOLEAN :
       LET made == NewClient(cfg, fs, i, serviceFails) IN
       /\ clients' = [clients EXCEPT ![i] = made.client]
       /\ newErr' = [newErr EXCEPT ![i] = made.err]
  /\ UNCHANGED <<configVars, remote, freebusy, th, nops, replyOk>>

\* caller t may start an operation on adapter i
CanCall(t, i) ==
  /\ th[t].pc = "idle"
  /\ clients[i] # NoClient
  /\ nops < MaxOps

\* caller t runs clients[i].ListBusy(from, to)
CallListBusy(t, i) ==
  /\ CanCall(t, i)
  /\ \E w \in Windows, fb \in FreebusyResponses, fail \in BOOLEAN :
       LET out == ListBusy(clients[i], remote, fb, w[1], w[2], fail) IN
       /\ th' = [th EXCEPT ![t] =
                   Returned("ListBusy", i, "", IdleCaller.appt, EmptyEvent, out)]
       /\ remote' = out.remote
       /\ freebusy' = [freebusy EXCEPT ![t] = FreebusyQuery(fb, fail)]
       /\ replyOk' = [replyOk EXCEPT ![t] = FreebusyQuery(fb, fail).ok]
  /\ clients' = [clients EXCEPT ![i] = ClientAfter(@, "ListBusy")]
  /\ nops' = nops + 1
  /\ UNCHANGED <<configVars, newErr>>

\* caller t runs clients[i].CreateEvent(appt)
CallCreateEvent(t, i) ==
  /\ CanCall(t, i)
  /\ \E appt \in Appointments, fail \in BOOLEAN,
        newId \in EventIDs \ UNION {DOMAIN remote[cal] : cal \in DOMAIN remote} :
       LET out == CreateEvent(clients[i], remote, appt, newId, fail) IN
       /\ th' = [th EXCEPT ![t] =
                   Returned("CreateEvent", i, "", appt, EmptyEvent, out)]
       /\ remote' = out.remote
       /\ replyOk' = [replyOk EXCEPT ![t] =
                        EventsInsert(remote, clients[i].calendarID,
                                     NewEvent(appt), newId, fail).ok]
  /\ clients' = [clients EXCEPT ![i] = ClientAfter(@, "CreateEvent")]
  /\ nops' = nops + 1
  /\ UNCHANGED <<configVars, newErr, freebusy>>

\* caller t enters clients[i].UpdateEvent(eventID, appt) and its Events.Get
\* returns: on failure UpdateEvent returns, otherwise it holds the event
CallUpdateEvent(t, i) ==
  /\ CanCall(t, i)
  /\ \E eventID \in EventIDs, appt \in Appointments, fail \in BOOLEAN :
       LET got == UpdateEventGet(clients[i], remote, eventID, fail) IN
       /\ th' = [th EXCEPT ![t] =
                   [Returned("UpdateEvent", i, eventID, appt,
                             got.existingEvent, got.out)
                      EXCEPT !.pc = IF got.ok THEN "fetched" ELSE "idle"]]
       /\ replyOk' = [replyOk EXCEPT ![t] =
                        EventsGet(remote, clients[i].calendarID, eventID,
                                  fail).ok]
  /\ clients' = [clients EXCEPT ![i] = ClientAfter(@, "UpdateEvent")]
  /\ nops' = nops + 1
  /\ UNCHANGED <<configVars, newErr, remote, freebusy>>

\* caller t's UpdateEvent assigns the fields, its Events.Update returns and
\* UpdateEvent returns
FinishUpdateEvent(t) ==
  /\ th[t].pc = "fetched"
  /\ \E fail \in BOOLEAN :
       LET out == UpdateEventPut(clients[th[t].inst], remote, th[t].eventID,
                                 th[t].appt, th[t].existing, th[t].calls, fail)
       IN
       /\ th' = [th EXCEPT ![t] =
                   Returned("UpdateEvent", th[t].inst, th[t].eventID,
                            th[t].appt, th[t].existing, out)]
       /\ remote' = out.remote
       /\ replyOk' = [replyOk EXCEPT ![t] =
                        EventsUpdate(remote, clients[th[t].inst].calendarID,
                                     th[t].eventID, th[t].existing, fail).ok]
  /\ clients' = [clients EXCEPT ![th[t].inst] = ClientAfter(@, "UpdateEvent")]
  /\ UNCHANGED <<configVars, newErr, freebusy, nops>>

\* caller t runs clients[i].DeleteEvent(eventID)
CallDeleteEvent(t, i) ==
  /\ CanCall(t, i)
  /\ \E eventID \in EventIDs, fail \in BOOLEAN :
       LET out == DeleteEvent(clients[i], remote, eventID, fail) IN
       /\ th' = [th EXCEPT ![t] =
                   Returned("DeleteEvent", i, eventID, IdleCaller.appt,
                            EmptyEvent, out)]
       /\ remote' = out.remote
       /\ replyOk' = [replyOk EXCEPT ![t] =
                        EventsDelete(remote, clients[i].calendarID, eventID,
                                     fail).ok]
  /\ clients' = [clients EXCEPT ![i] = ClientAfter(@, "DeleteEvent")]
  /\ nops' = nops + 1
  /\ UNCHANGED <<configVars, newErr, freebusy>>

Next ==
  \/ Load
  \/ \E i \in Insts : Construct(i)
  \/ \E t \in Callers, i \in Insts : CallListBusy(t, i)
  \/ \E t \in Callers, i \in Insts : CallCreateEvent(t, i)
  \/ \E t \in Callers, i \in Insts : CallUpdateEvent(t, i)
  \/ \E t \in Callers : FinishUpdateEvent(t)
  \/ \E t \in Callers, i \in Insts : CallDeleteEvent(t, i)

Spec == Init /\ [][Next]_vars

\* caller t's operation has returned
Completed(t) == th[t].pc = "idle" /\ th[t].op # "none"

\* the methods of the remote calls caller t's operation made, in order
Methods(t) == [k \in 1..Len(th[t].calls) |-> th[t].calls[k].method]

\* C9 as stated: every adapter operation that has returned made exactly one
\* remote call, on success and on failure alike.
C9_OneCallPerOperation ==
  \A t \in Callers : Completed(t) => Len(th[t].calls) = 1

\* C9 amended: ListBusy, CreateEvent and DeleteEvent make exactly one remote
\* call per invocation, on success and on failure alike; UpdateEvent makes
\* one call (the fetch) when the fetch fails and exactly two (the fetch, then
\* the write) otherwise.
C9_OneCallExceptUpdate ==
  \A t \in Callers :
    /\ (Completed(t) /\ th[t].op = "ListBusy")
         => Methods(t) = <<"freebusy.query">>
    /\ (Completed(t) /\ th[t].op = "CreateEvent")
         => Methods(t) = <<"events.insert">>
    /\ (Completed(t) /\ th[t].op = "DeleteEvent")
         => Methods(t) = <<"events.delete">>
    /\ (Completed(t) /\ th[t].op = "UpdateEvent")
         => IF th[t].err = ErrGet
              THEN Methods(t) = <<"events.get">>
              ELSE Methods(t) = <<"events.get", "events.update">>
    /\ th[t].pc = "fetched" => Methods(t) = <<"events.get">>

\* an UpdateEvent returned without error after two remote calls, and a
\* CreateEvent failed after one
C9_Witness ==
  \E t, u \in Callers :
    /\ Completed(t) /\ th[t].op = "UpdateEvent" /\ th[t].err = NoError
    /\ Len(th[t].calls) = 2
    /\ Completed(u) /\ th[u].op = "CreateEvent" /\ th[u].err = ErrCreate
    /\ Len(th[u].calls) = 1

\* C10: UpdateEvent first fetches the event and then writes back the event
\* it fetched: what it holds after the fetch is the remote event of that
\* moment, and the event it sends has summary, description, start, end and
\* location of the Appointment, the attendee list either kept or replaced by
\* the Appointment's attendee, and every other field as fetched; a write
\* that succeeds leaves exactly that event in the remote calendar.
C10_UpdateWritesBackFetched ==
  [][\A t \in Callers :
       /\ (th[t].pc = "idle" /\ th'[t].pc = "fetched")
            => /\ th'[t].existing =
                    remote[clients[th'[t].inst].calendarID][th'[t].eventID]
               /\ Len(th'[t].calls) = 1
               /\ th'[t].calls[1].method = "events.get"
               /\ th'[t].calls[1].eventId = th'[t].eventID
       /\ (th[t].pc = "fetched" /\ th'[t].pc = "idle")
            => LET fetched == th[t].existing
                   a == th[t].appt
                   call == th'[t].calls[2]
                   body == call.body
               IN /\ call.method = "events.update"
                  /\ call.eventId = th[t].eventID
                  /\ call.calendarId = clients[th[t].inst].calendarID
                  /\ body.Summary = a.Summary
                  /\ body.Description = a.Description
                  /\ body.Start = EventDateTime(FormatRFC3339(a.Start), a.Timezone)
                  /\ body.End = EventDateTime(FormatRFC3339(a.End), a.Timezone)
                  /\ body.Location = a.Location
                  /\ body.Attendees \in
                       {fetched.Attendees, <<EventAttendee(a.AttendeeEmail, "")>>}
                  /\ body.Id = fetched.Id
                  /\ body.ColorId = fetched.ColorId
                  /\ body.ExtendedProperties = fetched.ExtendedProperties
                  /\ th'[t].err = NoError
                       => remote'[call.calendarId][call.eventId] = body
  ]_vars

\* an UpdateEvent fetched an event carrying a colour and custom metadata and
\* wrote it back with a new summary and the same colour and metadata
C10_Witness ==
  \E t \in Callers :
    /\ Completed(t) /\ th[t].op = "UpdateEvent" /\ th[t].err = NoError
    /\ th[t].existing.ExtendedProperties = "meta"
    /\ th[t].existing.ColorId = "7"
    /\ th[t].calls[2].body.ExtendedProperties = "meta"
    /\ th[t].calls[2].body.ColorId = "7"
    /\ th[t].calls[2].body.Summary # th[t].existing.Summary
    /\ remote["cal1"]["e1"] = th[t].calls[2].body

\* the calendar the adapter caller t works on is bound to
BoundCalendar(t) == clients[th[t].inst].calendarID

\* the event does not exist in the calendar, or the calendar does not exist
Missing(r, cal, id) == cal \notin DOMAIN r \/ id \notin DOMAIN r[cal]

\* C11: UpdateEvent on an event identifier that does not exist remotely
\* returns the fetch error after its one fetch call, goes on to no write,
\* and leaves every adapter's fields and the remote events as they were.
C11_UpdateMissingEventFails ==
  [][\A t \in Callers :
       (/\ th[t].pc = "idle"
        /\ th'[t] # th[t]
        /\ th'[t].op = "UpdateEvent"
        /\ Missing(remote, clients[th'[t].inst].calendarID, th'[t].eventID))
         => /\ th'[t].pc = "idle"
            /\ th'[t].err = ErrGet
            /\ Len(th'[t].calls) = 1
            /\ th'[t].calls[1].method = "events.get"
            /\ clients' = clients
            /\ remote' = remote
  ]_vars

\* an UpdateEvent of an event the existing calendar does not hold returned
\* the fetch error after one call
C11_Witness ==
  \E t \in Callers :
    /\ Completed(t) /\ th[t].op = "UpdateEvent"
    /\ BoundCalendar(t) = "cal1"
    /\ th[t].eventID \notin DOMAIN remote["cal1"]
    /\ th[t].err = ErrGet
    /\ Methods(t) = <<"events.get">>

\* caller t's UpdateEvent has returned without error
UpdateSucceeded(t) ==
  Completed(t) /\ th[t].op = "UpdateEvent" /\ th[t].err = NoError

\* C12 as stated: after a successful UpdateEvent the fields of the original
\* event that have no counterpart in the Appointment (custom metadata, the
\* colour) are absent from the event written back.
C12_ForeignFieldsDropped ==
  \A t \in Callers :
    UpdateSucceeded(t)
      => /\ th[t].calls[2].body.ExtendedProperties = ""
         /\ th[t].calls[2].body.ColorId = ""

\* C12 amended: after a successful UpdateEvent the fields of the original
\* event that have no counterpart in the Appointment (custom metadata, the
\* colour) are kept: the event written back carries them as fetched.
C12_ForeignFieldsKept ==
  \A t \in Callers :
    UpdateSucceeded(t)
      => /\ th[t].calls[2].body.ExtendedProperties
              = th[t].existing.ExtendedProperties
         /\ th[t].calls[2].body.ColorId = th[t].existing.ColorId

\* an event with custom metadata was updated with the zero Appointment and
\* the metadata was written back
C12_Witness ==
  \E t \in Callers :
    /\ UpdateSucceeded(t)
    /\ th[t].appt = IdleCaller.appt
    /\ th[t].existing.ExtendedProperties = "meta"
    /\ th[t].calls[2].body.ExtendedProperties = "meta"
    /\ th[t].calls[2].body.Summary = ""

\* caller t's ListBusy has returned
ListReturned(t) == Completed(t) /\ th[t].op = "ListBusy"

\* the busy intervals the answer to caller t's query lists under calendar cal
BusyOf(t, cal) ==
  IF cal \in DOMAIN freebusy[t].Calendars
    THEN freebusy[t].Calendars[cal].Busy ELSE <<>>

\* the TimeBlock of an interval whose two timestamps are RFC3339 texts
BlockOf(period) ==
  [Start |-> MakeTime(period.Start.sec, 0, period.Start.off),
   End |-> MakeTime(period.End.sec, 0, period.End.off),
   Source |-> "google_calendar"]

\* the TimeBlocks of the intervals of a list that parse, in the list's order
RECURSIVE ParsableBlocks(_)
ParsableBlocks(busy) ==
  IF busy = <<>> THEN <<>>
  ELSE IF Head(busy).Start.valid /\ Head(busy).End.valid
    THEN <<BlockOf(Head(busy))>> \o ParsableBlocks(Tail(busy))
    ELSE ParsableBlocks(Tail(busy))

\* C13: on a successful query ListBusy returns no error and exactly the
\* bound calendar's busy intervals whose start and end both parse as
\* RFC3339, in the order of the response, each tagged "google_calendar";
\* an interval that does not parse is left out and nothing else changes.
C13_ListBusyKeepsParsable ==
  \A t \in Callers :
    (ListReturned(t) /\ freebusy[t].ok)
      => /\ th[t].err = NoError
         /\ th[t].blocks = ParsableBlocks(BusyOf(t, BoundCalendar(t)))

\* of three intervals the second had an unparsable start: the first and the
\* third came back, in that order
C13_Witness ==
  \E t \in Callers :
    /\ ListReturned(t) /\ freebusy[t].ok
    /\ Len(BusyOf(t, BoundCalendar(t))) = 3
    /\ ~BusyOf(t, BoundCalendar(t))[2].Start.valid
    /\ th[t].blocks =
         << [Start |-> MakeTime(0, 0, 0), End |-> MakeTime(1, 0, 0),
             Source |-> "google_calendar"],
            [Start |-> MakeTime(2, 0, 3600), End |-> MakeTime(3, 0, 3600),
             Source |-> "google_calendar"] >>

\* C14: ListBusy asks for the bound calendar identifier only; every block
\* it returns comes from an interval listed under that identifier, an
\* answer without an entry for it yields an empty result and no error, and
\* two answers that agree on that entry yield the same result whatever they
\* list under other identifiers.
C14_ListBusyReadsBoundCalendarOnly ==
  \A t \in Callers :
    ListReturned(t) =>
      /\ th[t].calls[1].query.Items = <<BoundCalendar(t)>>
      /\ \A k \in 1..Len(th[t].blocks) :
           \E j \in 1..Len(BusyOf(t, BoundCalendar(t))) :
              LET p == BusyOf(t, BoundCalendar(t))[j] IN
              p.Start.valid /\ p.End.valid /\ th[t].blocks[k] = BlockOf(p)
      /\ (freebusy[t].ok /\ BoundCalendar(t) \notin DOMAIN freebusy[t].Calendars)
           => (th[t].blocks = <<>> /\ th[t].err = NoError)
      /\ \A u \in Callers :
           (/\ ListReturned(u) /\ freebusy[u].ok /\ freebusy[t].ok
            /\ BoundCalendar(u) = BoundCalendar(t)
            /\ BusyOf(u, BoundCalendar(u)) = BusyOf(t, BoundCalendar(t)))
             => th[u].blocks = th[t].blocks

\* an answer that lists intervals under another calendar only gave an
\* empty result and no error
C14_Witness ==
  \E t \in Callers :
    /\ ListReturned(t) /\ freebusy[t].ok
    /\ BoundCalendar(t) \notin DOMAIN freebusy[t].Calendars
    /\ \E c \in DOMAIN freebusy[t].Calendars :
         Len(ParsableBlocks(freebusy[t].Calendars[c].Busy)) > 0
    /\ th[t].blocks = <<>>
    /\ th[t].err = NoError

\* C15: when the free/busy query fails ListBusy returns the error that
\* wraps the failure and no TimeBlock at all, and it returns an error in no
\* other case.
C15_ListBusyFailureHasNoBlocks ==
  \A t \in Callers :
    ListReturned(t) =>
      /\ ~freebusy[t].ok => (th[t].err = ErrQuery /\ th[t].blocks = <<>>)
      /\ th[t].err # NoError => ~freebusy[t].ok

C15_Witness ==
  \E t \in Callers :
    /\ ListReturned(t)
    /\ ~freebusy[t].ok
    /\ th[t].err = ErrQuery
    /\ th[t].blocks = <<>>

\* caller t's CreateEvent has returned
CreateReturned(t) == Completed(t) /\ th[t].op = "CreateEvent"

\* C16: the event CreateEvent sends has no attendee when the Appointment's
\* attendee email is empty, whatever the attendee name, and exactly one
\* attendee holding the email and nothing else when the email is not empty;
\* the attendee name is in no outgoing event.
C16_CreateAttendeeFromEmailOnly ==
  \A t \in Callers :
    CreateReturned(t) =>
      LET sent == th[t].calls[1].body.Attendees IN
      /\ th[t].calls[1].method = "events.insert"
      /\ th[t].appt.AttendeeEmail = "" => sent = <<>>
      /\ th[t].appt.AttendeeEmail # ""
           => sent = <<[Email |-> th[t].appt.AttendeeEmail, DisplayName |-> ""]>>
      /\ \A k \in 1..Len(sent) : sent[k].DisplayName = ""

\* one CreateEvent with a name and no email sent no attendee, another with
\* name and email sent the email alone
C16_Witness ==
  \E t, u \in Callers :
    /\ CreateReturned(t)
    /\ th[t].appt.AttendeeName = "Bob" /\ th[t].appt.AttendeeEmail = ""
    /\ th[t].calls[1].body.Attendees = <<>>
    /\ CreateReturned(u)
    /\ th[u].appt.AttendeeName = "Ann" /\ th[u].appt.AttendeeEmail = "ann@x"
    /\ th[u].calls[1].body.Attendees
         = <<[Email |-> "ann@x", DisplayName |-> ""]>>

\* the error each method's failure is wrapped into
WrappedError(method) ==
  CASE method = "freebusy.query" -> ErrQuery
    [] method = "events.insert" -> ErrCreate
    [] method = "events.get" -> ErrGet
    [] method = "events.update" -> ErrUpdate
    [] method = "events.delete" -> ErrDelete

\* caller t has made a remote call in the operation it runs or last ran
HasCalled(t) == th[t].op # "none" /\ Len(th[t].calls) > 0

\* the method of the latest remote call of caller t
LastMethod(t) == th[t].calls[Len(th[t].calls)].method

\* C17: when a remote call of any adapter operation fails, the operation
\* has returned with that call as its last one (nothing retried, nothing
\* after it), its error is the one that wraps that call's failure, and it
\* carries no event identifier and no TimeBlock; an operation returns an
\* error in no other case, so no failure is suppressed and none invented.
C17_RemoteFailureReturned ==
  \A t \in Callers :
    HasCalled(t) =>
      /\ ~replyOk[t]
           => /\ Completed(t)
              /\ th[t].err = WrappedError(LastMethod(t))
              /\ th[t].ret = ""
              /\ th[t].blocks = <<>>
              /\ Len(th[t].calls) = IF LastMethod(t) = "events.update" THEN 2 ELSE 1
      /\ replyOk[t] => th[t].err = NoError

\* a CreateEvent whose insert failed returned the wrapped error and an empty
\* identifier after one call, and an UpdateEvent whose write failed returned
\* its wrapped error after the two calls
C17_Witness ==
  \E t, u \in Callers :
    /\ Completed(t) /\ th[t].op = "CreateEvent" /\ ~replyOk[t]
    /\ th[t].err = ErrCreate /\ th[t].ret = "" /\ Len(th[t].calls) = 1
    /\ Completed(u) /\ th[u].op = "UpdateEvent" /\ ~replyOk[u]
    /\ th[u].err = ErrUpdate /\ Len(th[u].calls) = 2

\* the step is a construction of adapter i
Constructs(i) ==
  /\ clients[i] = NoClient
  /\ clients'[i] # clients[i] \/ newErr'[i] # newErr[i]

\* C18: NewClient returns an adapter exactly when it returns no error; it
\* fails with the credential-resolution error when the credential field is
\* empty, and with the JWT-config error whenever the resolved bytes are no
\* service-identity document, base64 text that decodes cleanly included.
C18_NewClientAdapterOrError ==
  [][\A i \in Insts :
       Constructs(i) =>
         /\ (clients'[i] # NoClient) <=> (newErr'[i] = NoError)
         /\ Field = <<>> => newErr'[i] = ErrGetCreds
         /\ (/\ Len(Field) > 0
             /\ DecodeString(Field).ok
             /\ ~IsServiceAccountJSON(DecodeString(Field).bytes))
              => newErr'[i] = ErrJWTConfig
         /\ (/\ Len(Field) > 0
             /\ ~DecodeString(Field).ok
             /\ ~Stat(fs, Field)
             /\ ~IsServiceAccountJSON(StringBytes(Field)))
              => newErr'[i] = ErrJWTConfig
  ]_vars

\* the field AAAA decodes to three zero bytes: no adapter, the JWT error
C18_Witness ==
  \E i \in Insts :
    /\ Field = <<"A", "A", "A", "A">>
    /\ DecodeString(Field).bytes = <<0, 0, 0>>
    /\ clients[i] = NoClient
    /\ newErr[i] = ErrJWTConfig

C20_AdapterFieldsFixed ==
  [][\A i \in Insts : clients[i] # NoClient => clients'[i] = clients[i]]_vars

\* two callers have completed operations on two different adapters, one
\* succeeding and one failing, and both adapters hold what NewClient bound
C20_Witness ==
  \E t, u \in Callers :
    /\ Completed(t) /\ Completed(u)
    /\ th[t].inst # th[u].inst
    /\ th[t].err = NoError /\ th[t].op = "DeleteEvent"
    /\ th[u].err # NoError
    /\ \A i \in Insts :
         clients[i] = [service |-> i, calendarID |-> cfg.GCalCalendarID]

\* --------------------------------------------------- the three entry points
\* the date flags and the date-time flags given to the CLI
DateFlags == {"2026-01-01", "2026-01-02", "01/02/2026"}
StartFlags == {"", "tomorrow", "2026-01-01T00:00:01"}
EndFlags == {"", "noon", "2026-01-01T00:00:02"}

\* a program about to start in some environment: production or not, with or
\* without a calendar identifier, with no credential field, raw text that is
\* no credential document or the name of a credential file that may or may
\* not exist, and with or without the Supabase settings
InitMain ==
  /\ \E a \in {Unset("APP_ENV"), SetTo("production")},
        g \in {Unset("GCAL_CALENDAR_ID"), SetTo("cal1")},
        c \in {Unset("GOOGLE_CREDS_JSON"), SetTo(<<"{">>), SetTo(<<"A", ".">>)},
        su \in {Unset("SUPABASE_URL"), SetTo("x"), SetTo("y")},
        sk \in {Unset("SUPABASE_KEY"), SetTo("x")} :
       env = MakeEnv(a, Unset("HTTP_PORT"), Unset("TZ"), g, c, su, sk,
                     Unset("REDIS_URL"))
  /\ dotenv = AbsentFile
  /\ configenv = AbsentFile
  /\ \E e \in {NoEntry, [kind |-> "file", data |-> <<123, 125>>]} :
       fs = [p \in CredPaths |-> IF p = <<"A", ".">> THEN e ELSE NoEntry]
  /\ pc = "start"
  /\ cfg = DefaultConfig
  /\ loadErr = NoError
  /\ credsOut = NoCreds
  /\ proc \in {ProcOf("api"), ProcOf("cli"), ProcOf("test")}
  /\ AdapterInit
  /\ RemoteIdle

\* cfg, err := config.Load() as the first statement of an entry point
LoadAtStart ==
  /\ pc = "start"
  /\ env' = OverlaidEnv(env, dotenv, configenv)
  /\ cfg' = ResolveConfig(env')
  /\ loadErr' = Validate(cfg')
  /\ pc' = "loaded"
  /\ UNCHANGED <<dotenv, configenv, fs, credsOut>>

\* the main thread ran adapter operation op, which made its remote call
RanOperation(op, eventID, appt, out, ok) ==
  /\ th' = [th EXCEPT !["t1"] =
              Returned(op, "c1", eventID, appt, EmptyEvent, out)]
  /\ remote' = out.remote
  /\ replyOk' = [replyOk EXCEPT !["t1"] = ok]
  /\ nops' = nops + 1

\* the main thread called no adapter operation
RanNothing == UNCHANGED <<th, remote, replyOk, nops>>

\* main of cmd/api: Load, fatal on its error, then the listener
ApiStart ==
  /\ proc.entry = "api" /\ proc.at = "start"
  /\ LoadAtStart
  /\ \E listenFails \in BOOLEAN :
       proc' = [proc EXCEPT !.at = ApiMain(loadErr', listenFails).at,
                            !.exit = ApiMain(loadErr', listenFails).exit]
  /\ UNCHANGED adapterVars

\* the handler of GET /healthz
ApiHealthz ==
  /\ proc.entry = "api" /\ proc.at = "serving"
  /\ proc' = [proc EXCEPT !.response = Healthz(cfg)]
  /\ UNCHANGED <<env, dotenv, configenv, fs, pc, cfg, loadErr, credsOut>>
  /\ UNCHANGED adapterVars

\* init of cmd/cli: Load, a warning on its error, then the client if wanted
CliInit ==
  /\ proc.entry = "cli" /\ proc.at = "start"
  /\ LoadAtStart
  /\ \E serviceFails \in BOOLEAN :
       LET made == IF CliClientWanted(cfg')
                     THEN NewClient(cfg', fs, "c1", serviceFails)
                     ELSE [client |-> NoClient, err |-> NoError]
       IN /\ clients' = [clients EXCEPT !["c1"] = made.client]
          /\ newErr' = [newErr EXCEPT !["c1"] = made.err]
  /\ proc' = [proc EXCEPT !.at = "ready"]
  /\ UNCHANGED <<remote, freebusy, th, nops, replyOk>>

\* cli list-busy --from fromStr --to toStr
CliListBusy ==
  /\ proc.entry = "cli" /\ proc.at = "ready"
  /\ \E fromStr \in DateFlags, toStr \in DateFlags,
        fb \in FreebusyResponses, fail \in BOOLEAN :
       LET res == ListBusyCmd(clients["c1"], remote, fb, fromStr, toStr, fail)
       IN /\ proc' = [proc EXCEPT
                        !.at = "exited", !.exit = res.exit, !.cmd = "list-busy",
                        !.args = MakeArgs(fromStr, toStr, "", "", "", ""),
                        !.calls = @ \o res.out.calls]
          /\ IF res.called
               THEN /\ RanOperation("ListBusy", "", IdleCaller.appt, res.out,
                                    FreebusyQuery(fb, fail).ok)
                    /\ freebusy' = [freebusy EXCEPT
                                      !["t1"] = FreebusyQuery(fb, fail)]
               ELSE RanNothing /\ freebusy' = freebusy
  /\ UNCHANGED <<env, dotenv, configenv, fs, pc, cfg, loadErr, credsOut>>
  /\ UNCHANGED <<clients, newErr>>

\* cli create-event --summary ... --start ... --end ... --attendee-email ...
CliCreateEvent ==
  /\ proc.entry = "cli" /\ proc.at = "ready"
  /\ \E summary \in {"", "s1"}, start \in StartFlags, end \in EndFlags,
        email \in {"", "ann@x"}, fail \in BOOLEAN :
       LET a == MakeArgs("", "", summary, start, end, email)
           res == CreateEventCmd(clients["c1"], remote, a, "e2", fail)
       IN /\ proc' = [proc EXCEPT
                        !.at = "exited", !.exit = res.exit,
                        !.cmd = "create-event", !.args = a,
                        !.calls = @ \o res.out.calls]
          /\ IF res.called
               THEN RanOperation("CreateEvent", "", CmdAppointment(a), res.out,
                                 EventsInsert(remote, clients["c1"].calendarID,
                                              NewEvent(CmdAppointment(a)),
                                              "e2", fail).ok)
               ELSE RanNothing
  /\ UNCHANGED <<env, dotenv, configenv, fs, pc, cfg, loadErr, credsOut>>
  /\ UNCHANGED <<clients, newErr, freebusy>>

\* main of the connection test program: Load, fatal on its error, then
\* NewClient, fatal on its error
TestStart ==
  /\ proc.entry = "test" /\ proc.at = "start"
  /\ LoadAtStart
  /\ \E serviceFails \in BOOLEAN :
       LET made == IF loadErr' # NoError
                     THEN [client |-> NoClient, err |-> NoError]
                     ELSE NewClient(cfg', fs, "c1", serviceFails)
           fatal == loadErr' # NoError \/ made.err # NoError
       IN /\ clients' = [clients EXCEPT !["c1"] = made.client]
          /\ newErr' = [newErr EXCEPT !["c1"] = made.err]
          /\ proc' = [proc EXCEPT !.at = IF fatal THEN "exited" ELSE "client",
                                  !.exit = IF fatal THEN 1 ELSE 0]
  /\ UNCHANGED <<remote, freebusy, th, nops, replyOk>>

\* the test program lists the busy times of the day before and after now
TestListBusy ==
  /\ proc.entry = "test" /\ proc.at = "client"
  /\ \E fb \in FreebusyResponses, fail \in BOOLEAN :
       LET out == ListBusy(clients["c1"], remote, fb, AddDuration(Now, -Day),
                           AddDuration(Now, Day), fail)
       IN /\ RanOperation("ListBusy", "", IdleCaller.appt, out,
                          FreebusyQuery(fb, fail).ok)
          /\ freebusy' = [freebusy EXCEPT !["t1"] = FreebusyQuery(fb, fail)]
          /\ proc' = [proc EXCEPT
                        !.at = IF out.err # NoError THEN "exited" ELSE "listed",
                        !.exit = IF out.err # NoError THEN 1 ELSE 0,
                        !.calls = @ \o out.calls]
  /\ UNCHANGED <<env, dotenv, configenv, fs, pc, cfg, loadErr, credsOut>>
  /\ UNCHANGED <<clients, newErr>>

\* the test program creates its test event; a failure ends it normally
TestCreateEvent ==
  /\ proc.entry = "test" /\ proc.at = "listed"
  /\ \E fail \in BOOLEAN :
       LET out == CreateEvent(clients["c1"], remote, TestAppt, "e2", fail)
       IN /\ RanOperation("CreateEvent", "", TestAppt, out,
                          EventsInsert(remote, clients["c1"].calendarID,
                                       NewEvent(TestAppt), "e2", fail).ok)
          /\ proc' = [proc EXCEPT
                        !.at = IF out.err # NoError THEN "exited" ELSE "created",
                        !.calls = @ \o out.calls]
  /\ UNCHANGED <<env, dotenv, configenv, fs, pc, cfg, loadErr, credsOut>>
  /\ UNCHANGED <<clients, newErr, freebusy>>

\* the test program deletes the event it created and ends
TestDeleteEvent ==
  /\ proc.entry = "test" /\ proc.at = "created"
  /\ \E fail \in BOOLEAN :
       LET out == DeleteEvent(clients["c1"], remote, th["t1"].ret, fail)
       IN /\ RanOperation("DeleteEvent", th["t1"].ret, IdleCaller.appt, out,
                          EventsDelete(remote, clients["c1"].calendarID,
                                       th["t1"].ret, fail).ok)
          /\ proc' = [proc EXCEPT !.at = "exited", !.calls = @ \o out.calls]
  /\ UNCHANGED <<env, dotenv, configenv, fs, pc, cfg, loadErr, credsOut>>
  /\ UNCHANGED <<clients, newErr, freebusy>>

NextMain ==
  \/ ApiStart
  \/ ApiHealthz
  \/ CliInit
  \/ CliListBusy
  \/ CliCreateEvent
  \/ TestStart
  \/ TestListBusy
  \/ TestCreateEvent
  \/ TestDeleteEvent

SpecMain == InitMain /\ [][NextMain]_vars

\* Load has returned with a configuration error
LoadFailed == pc = "loaded" /\ loadErr # NoError

\* google.NewClient has been called for the program's client
ClientAttempted == clients["c1"] # NoClient \/ newErr["c1"] # NoError

\* C24 as stated: in every entry point, once Load has returned an error the
\* process serves no request, constructs no calendar client and runs no
\* command.
C24_ConfigErrorFatalEverywhere ==
  LoadFailed =>
    /\ proc.at # "serving" /\ proc.response = NoSummary
    /\ ~ClientAttempted
    /\ proc.cmd = "none"

\* C24 amended: a configuration error is fatal to startup in the API server
\* and in the connection test program, which exit with status 1 before
\* serving a request or constructing a client; the CLI goes on after it, but
\* constructs no calendar client, and a command it then runs makes no
\* remote call and exits with status 1.
C24_ConfigErrorFatalButCli ==
  LoadFailed =>
    /\ proc.entry \in {"api", "test"}
         => /\ proc.at = "exited" /\ proc.exit = 1
            /\ proc.response = NoSummary
    /\ ~ClientAttempted
    /\ proc.calls = <<>>
    /\ (proc.entry = "cli" /\ proc.cmd # "none") => proc.exit = 1

\* the API server, in production without a credential field, has exited
\* with status 1 and answered nothing
C24_Witness ==
  /\ proc.entry = "api"
  /\ loadErr = ErrCredsRequired
  /\ proc.at = "exited" /\ proc.exit = 1
  /\ proc.response = NoSummary

\* C25: when the credential field names a credentials file that does not
\* exist, client construction fails with the "failed to get Google
\* credentials" error, not with the "failed to create JWT config" error.
C25_MissingFileIsCredentialError ==
  (/\ pc = "loaded"
   /\ Field = <<"A", ".">> /\ ~Stat(fs, Field)
   /\ ClientAttempted)
    => newErr["c1"] = ErrGetCreds

\* C26: GET /healthz answers with status ok and a summary that tells of the
\* Google credentials, the Supabase URL and the Supabase key only whether
\* each is present: every configuration that differs from the served one
\* only in the non-empty content of those three fields gets the same answer.
C26_HealthzShowsPresenceOnly ==
  proc.response # NoSummary =>
    /\ proc.response.status = "ok"
    /\ proc.response.has_google_creds = (cfg.GoogleCredsJSON # <<>>)
    /\ proc.response.has_supabase_url = (cfg.SupabaseURL # "")
    /\ proc.response.has_supabase_key = (cfg.SupabaseKey # "")
    /\ \A g \in {<<"{">>, <<"A", ".">>, <<"A", "A", "A", "A">>},
          u \in {"x", "y"}, k \in {"x", "k"} :
         LET other == [cfg EXCEPT
                         !.GoogleCredsJSON = IF @ = <<>> THEN @ ELSE g,
                         !.SupabaseURL = IF @ = "" THEN @ ELSE u,
                         !.SupabaseKey = IF @ = "" THEN @ ELSE k]
         IN Healthz(other) = proc.response

\* the server answered for a one-character credential field and the URL y,
\* without a key: two presences, one absence
C26_Witness ==
  /\ proc.entry = "api" /\ proc.at = "serving"
  /\ cfg.GoogleCredsJSON = <<"{">> /\ proc.response.has_google_creds
  /\ cfg.SupabaseURL = "y" /\ proc.response.has_supabase_url
  /\ cfg.SupabaseKey = "" /\ ~proc.response.has_supabase_key
  /\ proc.response.status = "ok"

\* C29: the CLI constructs its calendar client only when both the calendar
\* identifier and the credential field are non-empty; with no client,
\* whether not attempted or failed, list-busy and create-event make no
\* remote call and exit with status 1; create-event makes no remote call
\* either when summary, start or end is missing or a time does not parse.
C29_CliNeedsClient ==
  proc.entry = "cli" =>
    /\ ClientAttempted
         => (cfg.GCalCalendarID # "" /\ cfg.GoogleCredsJSON # <<>>)
    /\ (proc.cmd \in {"list-busy", "create-event"} /\ clients["c1"] = NoClient)
         => /\ proc.calls = <<>>
            /\ proc.exit = 1
            /\ remote = RemoteHolding(OldEvent(<<>>, "meta"))
    /\ (/\ proc.cmd = "create-event"
        /\ \/ proc.args.summary = ""
           \/ proc.args.start \in {"", "tomorrow"}
           \/ proc.args.end \in {"", "noon"})
         => /\ proc.calls = <<>>
            /\ remote = RemoteHolding(OldEvent(<<>>, "meta"))

\* construction was attempted and failed, and list-busy then exited with
\* status 1 without a remote call
C29_Witness ==
  /\ proc.entry = "cli" /\ proc.cmd = "list-busy"
  /\ newErr["c1"] = ErrJWTConfig /\ clients["c1"] = NoClient
  /\ proc.at = "exited" /\ proc.exit = 1
  /\ proc.calls = <<>>

\* C30: list-busy with --from D1 and --to D2 queries the window from the
\* start of day D1 to the end of day D2, so that the blocks of day D1 lie
\* inside it.
C30_WindowFromStartOfFirstDay ==
  (proc.cmd = "list-busy" /\ proc.calls # <<>>) =>
    LET q == proc.calls[1].query
        d1 == ParseDate(proc.args.from).time
        d2 == ParseDate(proc.args.to).time
    IN /\ q.TimeMin = FormatRFC3339(d1)
       /\ q.TimeMax = FormatRFC3339(AddDuration(d2, Day))

\* C27: the fetch and the write of UpdateEvent are two remote calls with no
\* version check between them: a write the remote accepts succeeds and puts
\* the event built from the snapshot in place, also when the remote event
\* has changed since the fetch, so that the change is lost.
C27_WriteReplacesWithSnapshot ==
  [][\A t \in Callers :
       (/\ th[t].pc = "fetched" /\ th'[t].pc = "idle"
        /\ replyOk'[t]
        /\ remote[clients[th[t].inst].calendarID][th[t].eventID]
             # th[t].existing)
         => LET cal == clients[th[t].inst].calendarID
                id == th[t].eventID
                written == remote'[cal][id]
            IN /\ th'[t].err = NoError
               /\ Methods(t)' = <<"events.get", "events.update">>
               /\ written = th'[t].calls[2].body
               /\ written.Summary = th[t].appt.Summary
               /\ written.ColorId = th[t].existing.ColorId
               /\ th[t].appt.AttendeeEmail = ""
                    => written.Attendees = th[t].existing.Attendees
  ]_vars

\* two UpdateEvent calls fetched the same event one after the other and then
\* wrote one after the other: the event left is the result of neither
\* serial order of the two updates
C27_Witness ==
  \E t, u \in Callers :
    /\ t # u
    /\ UpdateSucceeded(t) /\ UpdateSucceeded(u)
    /\ BoundCalendar(t) = "cal1" /\ BoundCalendar(u) = "cal1"
    /\ th[t].eventID = "e1" /\ th[u].eventID = "e1"
    /\ th[t].existing = th[u].existing
    /\ remote["cal1"]["e1"]
         \notin {MergeEvent(MergeEvent(th[t].existing, th[t].appt), th[u].appt),
                 MergeEvent(MergeEvent(th[t].existing, th[u].appt), th[t].appt)}

\* caller t's UpdateEvent has returned after making its write call
UpdateWrote(t) ==
  Completed(t) /\ th[t].op = "UpdateEvent" /\ Len(th[t].calls) = 2

\* C28 as stated: the event UpdateEvent writes has summary, description,
\* start, end and location of the Appointment whatever they are; its
\* attendee list is the one entry of the Appointment's email when that is
\* non-empty and the fetched list otherwise; and no attendee of the fetched
\* event is missing from it.
C28_UpdateNeverRemovesAttendee ==
  \A t \in Callers :
    UpdateWrote(t) =>
      LET body == th[t].calls[2].body
          a == th[t].appt
          old == th[t].existing.Attendees
      IN /\ body.Summary = a.Summary /\ body.Description = a.Description
         /\ body.Start = EventDateTime(FormatRFC3339(a.Start), a.Timezone)
         /\ body.End = EventDateTime(FormatRFC3339(a.End), a.Timezone)
         /\ body.Location = a.Location
         /\ a.AttendeeEmail # ""
              => body.Attendees = <<EventAttendee(a.AttendeeEmail, "")>>
         /\ a.AttendeeEmail = "" => body.Attendees = old
         /\ \A k \in 1..Len(old) :
              \E j \in 1..Len(body.Attendees) :
                body.Attendees[j].Email = old[k].Email

\* C28 amended: as above, but a non-empty email replaces the list, removing
\* every other attendee; what no UpdateEvent call can do is leave an event
\* that had attendees without any.
C28_UpdateNeverEmptiesAttendees ==
  \A t \in Callers :
    UpdateWrote(t) =>
      LET body == th[t].calls[2].body
          a == th[t].appt
          old == th[t].existing.Attendees
      IN /\ body.Summary = a.Summary /\ body.Description = a.Description
         /\ body.Start = EventDateTime(FormatRFC3339(a.Start), a.Timezone)
         /\ body.End = EventDateTime(FormatRFC3339(a.End), a.Timezone)
         /\ body.Location = a.Location
         /\ a.AttendeeEmail # ""
              => body.Attendees = <<EventAttendee(a.AttendeeEmail, "")>>
         /\ a.AttendeeEmail = "" => body.Attendees = old
         /\ old # <<>> => body.Attendees # <<>>

\* an event with two attendees was updated with the zero Appointment: the
\* five fields were written empty and the two attendees kept
C28_Witness ==
  \E t \in Callers :
    /\ UpdateWrote(t)
    /\ th[t].appt = IdleCaller.appt
    /\ Len(th[t].existing.Attendees) = 2
    /\ th[t].calls[2].body.Attendees = th[t].existing.Attendees
    /\ th[t].calls[2].body.Summary = ""
    /\ th[t].calls[2].body.Location = ""
    /\ th[t].existing.Location = "oldloc"

====
